---- MODULE Spec2Model ----
(***************************************************************************)
(* git-keys: per-identity SSH keys, their routing entries in ~/.ssh/config *)
(* and their registrations on GitHub / GitLab.                             *)
(*                                                                         *)
(* Strings are sequences of tokens.  A token is one character (" ", "a",   *)
(* "@", ...) or one of the program's fixed literals ("github", "Host ",    *)
(* "# BEGIN git-keys managed block -", ...); the alphabet of the inputs    *)
(* cannot spell a literal, so prefix, suffix, trim and replace on token    *)
(* sequences act as the Go functions act on the strings.                   *)
(***************************************************************************)
EXTENDS Integers, Sequences, FiniteSets, TLC

VARIABLES
    routing,    \* the lines of ~/.ssh/config (strings.Split(content, "\n"))
    rPrev,      \* the lines before the last AddOrUpdateEntry of SpecRouting
    rBlock,     \* the block id of that call
    rEntries,   \* the entries of that call
    rCalls,     \* how many calls SpecRouting has made
    recScan,    \* the scan snapshot given to analyzeAndRecommend
    recCfg,     \* the declared config given to it: <<>> (nil) or <<cfg>>
    recOut,     \* <<>> before the call, then <<the Personas of its RecommendedMap>>
    disk,       \* the declared model in the config file
    cfg,        \* the model a running command holds: <<>> or <<cfg>>
    files,      \* the names of the files under ~/.ssh
    remote,     \* the key ids registered on the platforms
    tokens,     \* the keychain: <<service, account>> pairs that hold a token
    pc,         \* where the running command stands ("idle": none runs)
    cmd,        \* the running command and its arguments
    rotations,  \* runRotate's rotations
    keysToRevoke, \* runRevoke's keysToRevoke
    pos,        \* the index of the loop the command is in
    successful, \* runRotate's counters
    failed,
    configChanged, \* runApply's flag
    result,     \* what the last command returned
    nextId,     \* numbers the keys ssh-keygen and the platforms make
    faultsLeft, \* how many more steps may fail
    cmdsLeft,   \* how many more commands may start
    ev,         \* history: the last step taken
    preRot,     \* history: the state when the current pair's rotation started
    cmdPre,     \* history: the config file when the command started
    deletes,    \* history: the remote ids the command asked a platform to delete
    statusWrites, \* history: the <<persona, platform, key>> whose status it wrote
    saves,      \* history: how often the command saved the model
    gitconfig,  \* the content of ~/.gitconfig
    gPrev,      \* its content before the last update of SpecGitConfig
    gCalls,     \* how many updates SpecGitConfig has made
    sshDir,     \* the entries of the key directory a scan reads
    sshDirOk,   \* whether os.ReadDir of it succeeds
    agentOut,   \* <<>> until ssh-add -l has run, then <<[ok, lines]>>
    scanKeys,   \* result.Keys of the scan
    scanErr,    \* whether scanSSHKeys returned an error
    scanPc,     \* "start", "scanned", "done"
    walkRepos,  \* the repositories under an include's directory, in walk order
    walkOut,    \* <<>> before the walk, then <<the platforms it returned>>
    mgrFile,    \* the config file of a Manager: absent, garbage or a document
    mgrPrev,    \* the file before the Manager's last call
    mgrCall,    \* <<>>, then <<the Manager's call, its argument and what it returned>>
    bkClock,    \* the wall clock, in ticks shorter than a second
    bkSources,  \* which of ~/.ssh/config and the config file exist
    bkFiles,    \* the snapshot files: name :> content
    bkPrev,     \* the snapshot files before the last createBackup
    bkMade,     \* createBackup calls that returned a path
    remKeys,    \* result.Keys of a scan that checks the platforms
    remServer,  \* what each platform's API answers to a key listing
    remListed,  \* history: the platforms whose listing was obtained
    remPc       \* checkRemotePlatforms: "github", "gitlab", "done"

routingVars == <<routing, rPrev, rBlock, rEntries, rCalls>>
routingHist == <<rPrev, rBlock, rEntries, rCalls>>
recVars == <<recScan, recCfg, recOut>>
lifeVars == <<disk, cfg, files, remote, tokens, pc, cmd, rotations, keysToRevoke, pos,
              successful, failed, configChanged, result, nextId, faultsLeft, cmdsLeft,
              ev, preRot, cmdPre, deletes, statusWrites, saves>>

gitVars == <<gitconfig, gPrev, gCalls>>
scanVars == <<sshDir, sshDirOk, agentOut, scanKeys, scanErr, scanPc>>
walkVars == <<walkRepos, walkOut>>
mgrVars == <<mgrFile, mgrPrev, mgrCall>>
bkVars == <<bkClock, bkSources, bkFiles, bkPrev, bkMade>>
remVars == <<remKeys, remServer, remListed, remPc>>
auxVars == <<gitVars, scanVars, walkVars, mgrVars, bkVars, remVars>>

vars == <<routingVars, recVars, lifeVars, auxVars>>

----------------------------------------------------------------------------
(* Bounds *)

MaxLines == 3       \* lines of an initial routing file in SpecRouting
MaxUpserts == 2     \* AddOrUpdateEntry calls in one behaviour of SpecRouting
MaxIncludes == 1    \* conditional includes of a scan snapshot
MaxHosts == 2       \* routing entries of a scan snapshot
MaxFaults == 2      \* steps that fail in one behaviour of Spec
MaxGitLen == 4      \* tokens of an initial ~/.gitconfig in SpecGitConfig
MaxGitUpdates == 2  \* updates of ~/.gitconfig in one behaviour of SpecGitConfig
MaxMtime == 2       \* modification times of the files of a scanned key directory
MaxAgentLines == 2  \* lines of the agent's listing
MaxRepos == 3       \* repositories under the directory of an include
MaxPersonas == 2    \* personas of a model handed to Manager.Save
MaxBackups == 2     \* createBackup calls
MaxTicks == 4       \* how far the wall clock runs
MaxScannedKeys == 2 \* keys of a scan that checks the platforms
MaxListedKeys == 2  \* keys a platform lists
MaxRuns == 2        \* commands in one behaviour of SpecRuns
MaxRunFaults == 1   \* steps that fail in one behaviour of SpecRuns
TicksPerSecond == 2 \* clock ticks in one second

----------------------------------------------------------------------------
(* each specification leaves the variables of the others at rest *)

RoutingParked ==
    /\ routing = <<>> /\ rPrev = <<>> /\ rBlock = <<>> /\ rEntries = <<>> /\ rCalls = 0

RecParked == recScan = <<>> /\ recCfg = <<>> /\ recOut = <<>>

LifeParked ==
    /\ disk = <<>> /\ cfg = <<>> /\ files = {} /\ remote = {} /\ tokens = {}
    /\ pc = "idle" /\ cmd = <<>> /\ rotations = <<>> /\ keysToRevoke = <<>>
    /\ pos = 0 /\ successful = 0 /\ failed = 0 /\ configChanged = FALSE
    /\ result = "none" /\ nextId = 0 /\ faultsLeft = 0 /\ cmdsLeft = 0
    /\ ev = <<>> /\ preRot = <<>> /\ cmdPre = <<>> /\ deletes = {}
    /\ statusWrites = {} /\ saves = 0

GitParked == gitconfig = <<>> /\ gPrev = <<>> /\ gCalls = 0

ScanParked ==
    /\ sshDir = {} /\ sshDirOk = TRUE /\ agentOut = <<>> /\ scanKeys = <<>>
    /\ scanErr = FALSE /\ scanPc = "start"

WalkParked == walkRepos = <<>> /\ walkOut = <<>>

MgrParked == mgrFile = <<"absent">> /\ mgrPrev = <<"absent">> /\ mgrCall = <<>>

BkParked ==
    /\ bkClock = 0
    /\ bkSources = {}
    /\ bkFiles = <<>>
    /\ bkPrev = <<>>
    /\ bkMade = 0

RemParked == remKeys = <<>> /\ remServer = <<>> /\ remListed = {} /\ remPc = "github"

AuxParked ==
    GitParked /\ ScanParked /\ WalkParked /\ MgrParked /\ BkParked /\ RemParked

----------------------------------------------------------------------------
(* strings *)

EmptyStr == <<>>

Str(t) == <<t>>

HasPrefix(s, p) == Len(p) <= Len(s) /\ SubSeq(s, 1, Len(p)) = p

HasSuffix(s, p) == Len(p) <= Len(s) /\ SubSeq(s, Len(s) - Len(p) + 1, Len(s)) = p

TrimPrefix(s, p) == IF HasPrefix(s, p) THEN SubSeq(s, Len(p) + 1, Len(s)) ELSE s

TrimSuffix(s, p) == IF HasSuffix(s, p) THEN SubSeq(s, 1, Len(s) - Len(p)) ELSE s

RECURSIVE TrimLeft(_)
TrimLeft(s) == IF s # <<>> /\ Head(s) = " " THEN TrimLeft(Tail(s)) ELSE s

RECURSIVE TrimRight(_)
TrimRight(s) ==
    IF s # <<>> /\ s[Len(s)] = " " THEN TrimRight(SubSeq(s, 1, Len(s) - 1)) ELSE s

TrimSpace(s) == TrimRight(TrimLeft(s))

\* strings.ReplaceAll(s, c, "") for a one-character c
RECURSIVE RemoveAll(_, _)
RemoveAll(s, c) ==
    IF s = <<>> THEN <<>>
    ELSE IF Head(s) = c THEN RemoveAll(Tail(s), c)
    ELSE <<Head(s)>> \o RemoveAll(Tail(s), c)

----------------------------------------------------------------------------
(* sshconfig.Manager *)

managedBlockStart == Str("# BEGIN git-keys managed block -")
managedBlockEnd == Str("# END git-keys managed block")

\* fmt.Sprintf("%s %s", managedBlockStart, blockID)
StartMarker(blockID) == managedBlockStart \o Str(" ") \o blockID

\* the test of removeManagedBlock that opens the block
RemoveStartsBlock(line, blockID) == HasPrefix(TrimSpace(line), StartMarker(blockID))

RemoveEndsBlock(line) == HasPrefix(TrimSpace(line), managedBlockEnd)

\* the loop of removeManagedBlock from line i on, inBlock being the flag
RECURSIVE removeLoop(_, _, _, _)
removeLoop(lines, blockID, i, inBlock) ==
    IF i > Len(lines) THEN <<>>
    ELSE IF RemoveStartsBlock(lines[i], blockID)
        THEN removeLoop(lines, blockID, i + 1, TRUE)
    ELSE IF inBlock /\ RemoveEndsBlock(lines[i])
        THEN removeLoop(lines, blockID, i + 1, FALSE)
    ELSE IF ~inBlock
        THEN <<lines[i]>> \o removeLoop(lines, blockID, i + 1, inBlock)
    ELSE removeLoop(lines, blockID, i + 1, inBlock)

\* removeManagedBlock without the recursion: the flag is set when the loop
\* reaches line i exactly when a line before it opened the block and no line
\* between the two closed it, and the loop keeps the lines that neither open
\* the block nor are met with the flag set.  RemoveLoopAgrees states that
\* this is what the loop computes.
removeManagedBlock(lines, blockID) ==
    LET starts == { j \in 1..Len(lines) : RemoveStartsBlock(lines[j], blockID) }
        ends == { j \in 1..Len(lines) : RemoveEndsBlock(lines[j]) } \ starts
        inBlock(i) == \E j \in starts : j < i /\ \A k \in ends : ~(j < k /\ k < i)
        Kept(i) == i \notin starts /\ ~inBlock(i)
        kept == SelectSeq([i \in 1..Len(lines) |-> i], Kept)
    IN [n \in 1..Len(kept) |-> lines[kept[n]]]

\* the lines of one Entry; Extra is a sequence of <<key, value>> (the callers
\* pass at most one key, so the map's iteration order does not show)
\* the two spaces before the keywords of an entry
Indent == <<" ", " ">>

RECURSIVE ExtraLines(_)
ExtraLines(extra) ==
    IF extra = <<>> THEN <<>>
    ELSE <<Indent \o extra[1][1] \o Str(" ") \o extra[1][2]>> \o ExtraLines(Tail(extra))

EntryLines(e) ==
    <<Str("Host ") \o e.Host>>
    \o (IF e.HostName # EmptyStr THEN <<Indent \o Str("HostName ") \o e.HostName>> ELSE <<>>)
    \o (IF e.User # EmptyStr THEN <<Indent \o Str("User ") \o e.User>> ELSE <<>>)
    \o (IF e.IdentityFile # EmptyStr
            THEN <<Indent \o Str("IdentityFile ") \o e.IdentityFile>> ELSE <<>>)
    \o ExtraLines(e.Extra)
    \o <<EmptyStr>>

RECURSIVE EntriesLines(_)
EntriesLines(entries) ==
    IF entries = <<>> THEN <<>>
    ELSE EntryLines(Head(entries)) \o EntriesLines(Tail(entries))

buildManagedBlock(blockID, entries) ==
    <<EmptyStr, StartMarker(blockID)>>
    \o EntriesLines(entries)
    \o <<managedBlockEnd, EmptyStr>>

\* The file is kept as its lines: Split on "\n" then Join with "\n" gives the
\* content back, no line of the model holding a newline.
AddOrUpdateEntry(lines, blockID, entries) ==
    removeManagedBlock(lines, blockID) \o buildManagedBlock(blockID, entries)

\* sshconfig.GetManagedBlockID: "%s-%s-%s"
GetManagedBlockID(persona, platform, account) ==
    persona \o Str("-") \o Str(platform) \o Str("-") \o account

----------------------------------------------------------------------------
(* SpecRouting: AddOrUpdateEntry over every small routing file *)

BlockIDs == {Str("a"), <<"a", "b">>}

RoutingLineKinds ==
    { StartMarker(Str("a")),
      StartMarker(<<"a", "b">>),
      managedBlockEnd,
      Str("Host ") \o Str("x"),
      EmptyStr }

RECURSIVE SeqsUpTo(_, _)
SeqsUpTo(S, n) ==
    IF n = 0 THEN {<<>>}
    ELSE LET shorter == SeqsUpTo(S, n - 1)
         IN shorter \cup {Append(s, x) : s \in {t \in shorter : Len(t) = n - 1}, x \in S}

Entry(host, hostName, user, identityFile, extra) ==
    [Host |-> host, HostName |-> hostName, User |-> user,
     IdentityFile |-> identityFile, Extra |-> extra]

RoutingEntries ==
    { Entry(Str("h1"), Str("github.com"), Str("git"), Str("k1"), <<>>),
      Entry(Str("h2"), EmptyStr, EmptyStr, Str("k2"),
            <<<<Str("IdentitiesOnly"), Str("yes")>>>>) }

InitRouting ==
    /\ routing \in (SeqsUpTo(RoutingLineKinds, MaxLines) \ {<<>>})
    /\ rPrev = <<>>
    /\ rBlock = EmptyStr
    /\ rEntries = <<>>
    /\ rCalls = 0
    /\ RecParked
    /\ LifeParked
    /\ AuxParked

Upsert ==
    /\ rCalls < MaxUpserts
    /\ \E id \in BlockIDs, e \in RoutingEntries :
        /\ routing' = AddOrUpdateEntry(routing, id, <<e>>)
        /\ rPrev' = routing
        /\ rBlock' = id
        /\ rEntries' = <<e>>
    /\ rCalls' = rCalls + 1
    /\ UNCHANGED <<recVars, lifeVars, auxVars>>

NextRouting == Upsert

\* the loop of removeManagedBlock and removeManagedBlock agree
RemoveLoopAgrees ==
    \A id \in BlockIDs : removeLoop(routing, id, 1, FALSE) = removeManagedBlock(routing, id)

SpecRouting == InitRouting /\ [][NextRouting]_vars

----------------------------------------------------------------------------
(* C8 *)

\* the lines of a file that lie outside the block whose id is exactly blockID
RECURSIVE OutsideExactLoop(_, _, _, _)
OutsideExactLoop(lines, blockID, i, inBlock) ==
    IF i > Len(lines) THEN <<>>
    ELSE IF TrimSpace(lines[i]) = StartMarker(blockID)
        THEN OutsideExactLoop(lines, blockID, i + 1, TRUE)
    ELSE IF inBlock /\ HasPrefix(TrimSpace(lines[i]), managedBlockEnd)
        THEN OutsideExactLoop(lines, blockID, i + 1, FALSE)
    ELSE IF ~inBlock
        THEN <<lines[i]>> \o OutsideExactLoop(lines, blockID, i + 1, inBlock)
    ELSE OutsideExactLoop(lines, blockID, i + 1, inBlock)

OutsideExact(lines, blockID) == OutsideExactLoop(lines, blockID, 1, FALSE)

\* s occurs in t as a subsequence (same relative order)
RECURSIVE IsSubseq(_, _)
IsSubseq(s, t) ==
    IF s = <<>> THEN TRUE
    ELSE IF t = <<>> THEN FALSE
    ELSE IF Head(s) = Head(t) THEN IsSubseq(Tail(s), Tail(t))
    ELSE IsSubseq(s, Tail(t))

\* C8: after AddOrUpdateEntry(blockID, entries) every line that was outside
\* the block with exactly that id is still in the file, in the same relative
\* order, a block whose id only begins with blockID included.
C8_UpsertKeepsOutside ==
    rCalls > 0 => IsSubseq(OutsideExact(rPrev, rBlock), routing)

----------------------------------------------------------------------------
(* config: the declared model (models.go) *)

PlatformGitHub == "github"
PlatformGitLab == "gitlab"

KeyTypeED25519 == "ed25519"

KeyStatusActive == "active"
KeyStatusExpired == "expired"
KeyStatusRevoked == "revoked"
KeyStatusPending == "pending"

\* KeyConfig, without its two timestamps
KeyConfig(type, fingerprint, localPath, remoteID, status) ==
    [Type |-> type, Fingerprint |-> fingerprint, LocalPath |-> localPath,
     RemoteID |-> remoteID, Status |-> status]

Platform(type, account, baseURL, keys) ==
    [Type |-> type, Account |-> account, BaseURL |-> baseURL, Keys |-> keys]

Persona(name, email, platforms) ==
    [Name |-> name, Email |-> email, Platforms |-> platforms]

Config(version, machineID, personas, keyType) ==
    [Version |-> version, MachineID |-> machineID, Personas |-> personas,
     KeyType |-> keyType]

Validate_PersonasOptional(c) ==
    /\ c.Version # EmptyStr
    /\ c.MachineID # EmptyStr
    /\ \A i \in 1..Len(c.Personas) :
        /\ c.Personas[i].Name # EmptyStr
        /\ c.Personas[i].Email # EmptyStr
        /\ Len(c.Personas[i].Platforms) # 0

\* Config.Validate: TRUE when it returns nil
Validate(c) ==
    /\ c.Version # EmptyStr
    /\ c.MachineID # EmptyStr
    /\ Len(c.Personas) # 0
    /\ \A i \in 1..Len(c.Personas) :
        /\ c.Personas[i].Name # EmptyStr
        /\ c.Personas[i].Email # EmptyStr
        /\ Len(c.Personas[i].Platforms) # 0

GetActiveKey_Nil(p) == <<>>

\* Platform.GetActiveKey: <<>> for nil, else <<the first active key>>
GetActiveKey(p) ==
    LET idx == {i \in 1..Len(p.Keys) : p.Keys[i].Status = KeyStatusActive}
    IN IF idx = {} THEN <<>>
       ELSE <<p.Keys[CHOOSE i \in idx : \A j \in idx : i <= j]>>

\* the index of that key, 0 for nil
ActiveKeyIdx(p) ==
    LET idx == {i \in 1..Len(p.Keys) : p.Keys[i].Status = KeyStatusActive}
    IN IF idx = {} THEN 0 ELSE CHOOSE i \in idx : \A j \in idx : i <= j

----------------------------------------------------------------------------
(* sshkey: file names (manager.go) *)

\* "git-keys-%s-%s-%s"
BuildKeyFileName(platform, account, keyType) ==
    Str("git-keys-") \o Str(platform) \o Str("-") \o account \o Str("-") \o Str(keyType)

----------------------------------------------------------------------------
(* the declared models the specifications start from *)

GithubCom == <<"github", ".com">>
GitlabCom == <<"gitlab", ".com">>
GitlabCorp == <<"gitlab", ".corp">>

Fp(t) == <<"SHA256:", t>>

AcctX == Str("x")
AcctY == Str("y")

Email1 == <<"a", "@", "m">>
Email2 == <<"b", "@", "m">>

\* persona "a": github/x with an uploaded active key; gitlab/y with a revoked
\* key that is still registered and an active key that was never uploaded.
\* persona "a b": github/y with an uploaded active key.
CfgRotated ==
    Config(Str("1"), Str("m1"),
      << Persona(Str("a"), Email1,
           << Platform(PlatformGitHub, AcctX, EmptyStr,
                << KeyConfig(KeyTypeED25519, Fp("f1"),
                     BuildKeyFileName(PlatformGitHub, AcctX, KeyTypeED25519),
                     Str("r1"), KeyStatusActive) >>),
              Platform(PlatformGitLab, AcctY, EmptyStr,
                << KeyConfig(KeyTypeED25519, Fp("f2"), Str("id_old"),
                     Str("r2"), KeyStatusRevoked),
                   KeyConfig(KeyTypeED25519, Fp("f3"),
                     BuildKeyFileName(PlatformGitLab, AcctY, KeyTypeED25519),
                     EmptyStr, KeyStatusActive) >>) >>),
         Persona(<<"a", " ", "b">>, Email2,
           << Platform(PlatformGitHub, AcctY, EmptyStr,
                << KeyConfig(KeyTypeED25519, Fp("f4"),
                     BuildKeyFileName(PlatformGitHub, AcctY, KeyTypeED25519),
                     Str("r4"), KeyStatusActive) >>) >>) >>,
      KeyTypeED25519)

\* a model as init writes it: no key yet.  persona "a" holds two GitHub
\* accounts and a self-hosted GitLab.
CfgFresh ==
    Config(Str("1"), Str("m1"),
      << Persona(Str("a"), Email1,
           << Platform(PlatformGitHub, AcctX, EmptyStr, <<>>),
              Platform(PlatformGitHub, AcctY, EmptyStr, <<>>),
              Platform(PlatformGitLab, AcctX, <<"https://">> \o GitlabCorp, <<>>) >>) >>,
      KeyTypeED25519)

DeclaredConfigs == {CfgRotated, CfgFresh}

\* the key files, remote registrations and tokens that go with a model
KeyFiles(path) == {path, path \o Str(".pub")}

RECURSIVE SeqRange(_)
SeqRange(s) == IF s = <<>> THEN {} ELSE {Head(s)} \cup SeqRange(Tail(s))

AllKeys(c) ==
    UNION { UNION { SeqRange(c.Personas[i].Platforms[j].Keys)
                    : j \in 1..Len(c.Personas[i].Platforms) }
            : i \in 1..Len(c.Personas) }

----------------------------------------------------------------------------
(* the recommendation engine (analyzeAndRecommend, status.go) *)

RecommendedPlatform(type, account, baseURL, keyPath) ==
    [Type |-> type, Account |-> account, BaseURL |-> baseURL, KeyPath |-> keyPath]

RecommendedPersona(name, email, platforms) ==
    [Name |-> name, Email |-> email, Platforms |-> platforms]

\* strings.Contains(s, lit) for a literal that is one token
Contains(s, lit) == \E i \in 1..Len(s) : s[i] = lit

\* strings.Trim(s, "~/")
RECURSIVE TrimCutLeft(_)
TrimCutLeft(s) ==
    IF s # <<>> /\ Head(s) \in {"~", "/"} THEN TrimCutLeft(Tail(s)) ELSE s

RECURSIVE TrimCutRight(_)
TrimCutRight(s) ==
    IF s # <<>> /\ s[Len(s)] \in {"~", "/"}
    THEN TrimCutRight(SubSeq(s, 1, Len(s) - 1)) ELSE s

\* the last element of strings.Split(s, "/")
LastSegment(s) ==
    LET slashes == {i \in 1..Len(s) : s[i] = "/"}
        last == IF slashes = {} THEN 0 ELSE CHOOSE i \in slashes : \A j \in slashes : j <= i
    IN SubSeq(s, last + 1, Len(s))

\* lines 654-670: the persona name of an include
IncludePersonaName(include) ==
    IF include.Name # EmptyStr THEN include.Name
    ELSE IF Contains(include.Condition, "work") THEN Str("work")
    ELSE IF Contains(include.Condition, "personal") THEN Str("personal")
    ELSE LastSegment(TrimCutRight(TrimCutLeft(include.Condition)))

RECURSIVE DiscoveredToRecommended(_)
DiscoveredToRecommended(ds) ==
    IF ds = <<>> THEN <<>>
    ELSE <<RecommendedPlatform(Head(ds).Type, EmptyStr, Head(ds).BaseURL, EmptyStr)>>
         \o DiscoveredToRecommended(Tail(ds))

\* lines 601-627: the projection of a declared config
RECURSIVE ProjectPlatforms(_)
ProjectPlatforms(ps) ==
    IF ps = <<>> THEN <<>>
    ELSE LET p == Head(ps)
             active == GetActiveKey(p)
         IN <<RecommendedPlatform(p.Type, p.Account, p.BaseURL,
                IF active # <<>> THEN active[1].LocalPath ELSE EmptyStr)>>
            \o ProjectPlatforms(Tail(ps))

RECURSIVE ProjectPersonas(_)
ProjectPersonas(ps) ==
    IF ps = <<>> THEN <<>>
    ELSE <<RecommendedPersona(Head(ps).Name, Head(ps).Email,
             ProjectPlatforms(Head(ps).Platforms))>>
         \o ProjectPersonas(Tail(ps))

\* lines 632-640: emailMap after the global email
SeedGlobal(scan) ==
    IF scan.GlobalEmail # EmptyStr
    THEN (scan.GlobalEmail :> RecommendedPersona(Str("personal"), scan.GlobalEmail, <<>>))
    ELSE << >>

\* lines 643-691: emailMap after the includes from i on
RECURSIVE AddIncludes(_, _, _)
AddIncludes(m, includes, i) ==
    IF i > Len(includes) THEN m
    ELSE LET inc == includes[i]
         IN IF inc.Email = EmptyStr \/ inc.Email \in DOMAIN m
            THEN AddIncludes(m, includes, i + 1)
            ELSE AddIncludes(
                   m @@ (inc.Email :> RecommendedPersona(IncludePersonaName(inc), inc.Email,
                                        DiscoveredToRecommended(inc.DiscoveredPlatforms))),
                   includes, i + 1)

\* line 695: the routing entries that are taken for a platform
HostIsPlatform(host) == host.HostName = GithubCom \/ host.HostName = GitlabCom

\* lines 694-724: every emailMap the loop over the routing entries can leave;
\* without a global email the target is the first persona of a map iteration,
\* which is any persona of the map
RECURSIVE AddHosts(_, _, _, _)
AddHosts(m, hosts, i, globalEmail) ==
    IF i > Len(hosts) THEN {m}
    ELSE IF ~HostIsPlatform(hosts[i]) THEN AddHosts(m, hosts, i + 1, globalEmail)
    ELSE LET platformType == IF Contains(hosts[i].HostName, "gitlab")
                             THEN PlatformGitLab ELSE PlatformGitHub
             added == RecommendedPlatform(platformType, Str("username"), EmptyStr,
                                          hosts[i].IdentityFile)
             targets == IF globalEmail # EmptyStr THEN {globalEmail} ELSE DOMAIN m
         IN IF targets = {} THEN AddHosts(m, hosts, i + 1, globalEmail)
            ELSE UNION { AddHosts([m EXCEPT ![t].Platforms = Append(@, added)],
                                  hosts, i + 1, globalEmail) : t \in targets }

\* lines 727-729: the map's values in any iteration order
MapToSlices(m) ==
    LET n == Cardinality(DOMAIN m)
        orders == {o \in [1..n -> DOMAIN m] : \A i, j \in 1..n : i # j => o[i] # o[j]}
    IN {[i \in 1..n |-> m[o[i]]] : o \in orders}

analyzeAndRecommend_ScanFirst(scan, existingConfig) ==
    UNION { MapToSlices(m) :
            m \in AddHosts(AddIncludes(SeedGlobal(scan), scan.Includes, 1),
                           scan.SSHConfigHosts, 1, scan.GlobalEmail) }

\* analyzeAndRecommend: the set of RecommendedMap.Personas it can return
analyzeAndRecommend(scan, existingConfig) ==
    IF existingConfig # <<>>
    THEN {ProjectPersonas(existingConfig[1].Personas)}
    ELSE UNION { MapToSlices(m) :
                 m \in AddHosts(AddIncludes(SeedGlobal(scan), scan.Includes, 1),
                                scan.SSHConfigHosts, 1, scan.GlobalEmail) }

----------------------------------------------------------------------------
(* the collaborators of the key-lifecycle commands *)

\* uploadKey, deleteKey, revokeKey: the keychain service of a platform type
TokenService(platformType) ==
    IF platformType = PlatformGitHub THEN "git-keys-github" ELSE "git-keys-gitlab"

\* tokenMgr.GetToken(account) and, failing that, tokenMgr.GetToken("default")
HasToken(platformType, account) ==
    \/ <<TokenService(platformType), account>> \in tokens
    \/ <<TokenService(platformType), Str("default")>> \in tokens

\* os.Rename on the names of a directory
Rename(F, from, to) == IF from \in F THEN (F \ {from}) \cup {to} ELSE F

\* sshkey.Manager.DeleteKey: both files, a missing one is no error
DeleteKeyFiles(F, path) == F \ KeyFiles(path)

\* the date stamp of time.Now().Format("2006-01-02"); one day in the model
Today == "2026-01-01"

ArchivePath(keyPath) == Str("archive/") \o keyPath \o Str(".old-") \o Str(Today)

\* archiveOldKey when its renames succeed (a missing source is skipped)
archiveOldKey(F, keyPath) ==
    Rename(Rename(F, keyPath, ArchivePath(keyPath)),
           keyPath \o Str(".pub"), ArchivePath(keyPath) \o Str(".pub"))

SetKey_Append(c, pi, pli, ki, key) ==
    [c EXCEPT !.Personas[pi].Platforms[pli].Keys = Append(@, key)]

\* rot.PlatformRef.Keys[i] = *rot.NewKey
SetKey(c, pi, pli, ki, key) ==
    [c EXCEPT !.Personas[pi].Platforms[pli].Keys[ki] = key]

KeyAt(c, pi, pli, ki) == c.Personas[pi].Platforms[pli].Keys[ki]

\* the <<persona, platform, key>> indices of a model, and those a
\* persona / platform-type filter lets through
KeySlots(c) ==
    UNION { UNION { { <<pi, pli, ki>> : ki \in 1..Len(c.Personas[pi].Platforms[pli].Keys) }
                    : pli \in 1..Len(c.Personas[pi].Platforms) }
            : pi \in 1..Len(c.Personas) }

PlatformSlots(c) ==
    UNION { { <<pi, pli, 0>> : pli \in 1..Len(c.Personas[pi].Platforms) }
            : pi \in 1..Len(c.Personas) }

Selected(c, slot, targetPersona, targetPlatform) ==
    /\ targetPersona = EmptyStr \/ c.Personas[slot[1]].Name = targetPersona
    /\ targetPlatform = "" \/ c.Personas[slot[1]].Platforms[slot[2]].Type = targetPlatform

LexLess(a, b) ==
    \/ a[1] < b[1]
    \/ a[1] = b[1] /\ a[2] < b[2]
    \/ a[1] = b[1] /\ a[2] = b[2] /\ a[3] < b[3]

\* the slots in the order of the nested range loops
RECURSIVE InLoopOrder(_)
InLoopOrder(S) ==
    IF S = {} THEN <<>>
    ELSE LET first == CHOOSE x \in S : \A y \in S \ {x} : LexLess(x, y)
         IN <<first>> \o InLoopOrder(S \ {first})

Save(c) == Validate(c)

----------------------------------------------------------------------------
(* rotate (keychain.go) *)

\* keyRotation, with rotateKey's fingerprint and two history fields
KeyRotation(c, slot) ==
    LET persona == c.Personas[slot[1]]
        platform == persona.Platforms[slot[2]]
    IN [PersonaName |-> persona.Name, PersonaIdx |-> slot[1],
        PlatformType |-> platform.Type, PlatformIdx |-> slot[2], KeyIdx |-> slot[3],
        Account |-> platform.Account, BaseURL |-> platform.BaseURL,
        OldKey |-> platform.Keys[slot[3]], NewKey |-> <<>>,
        fingerprint |-> EmptyStr,
        outcome |-> "pending", failedSteps |-> {}]

\* lines 542-574: the active keys the arguments select
CollectRotations(c, targetPersona, targetPlatform) ==
    LET slots == { sl \in KeySlots(c) :
                     /\ Selected(c, sl, targetPersona, targetPlatform)
                     /\ KeyAt(c, sl[1], sl[2], sl[3]).Status = KeyStatusActive }
        order == InLoopOrder(slots)
    IN [n \in 1..Len(order) |-> KeyRotation(c, order[n])]

\* lines 664-667
RotationKeyType(c) == IF c.KeyType = "" THEN KeyTypeED25519 ELSE c.KeyType

KeyFileName(c, rot) == BuildKeyFileName(rot.PlatformType, rot.Account, RotationKeyType(c))

NewKeyPath_NoSuffix(c, rot) == KeyFileName(c, rot)

\* line 682
NewKeyPath(c, rot) == KeyFileName(c, rot) \o Str("-new")

\* lines 864-875
RotationHost(rot) ==
    IF rot.PlatformType = PlatformGitHub THEN GithubCom
    ELSE IF rot.BaseURL # EmptyStr
         THEN TrimSuffix(TrimPrefix(TrimPrefix(rot.BaseURL, Str("https://")),
                                    Str("http://")), Str("/"))
         ELSE GitlabCom

\* line 884
RotationBlockID(rot) ==
    Str("git-keys-") \o rot.PersonaName \o Str("-") \o Str(rot.PlatformType)

\* lines 877-882: the entry names rot.NewKey.LocalPath as it is at step 3
RotationEntry(c, rot) ==
    Entry(RotationHost(rot), RotationHost(rot), Str("git"), rot.NewKey[1].LocalPath, <<>>)

NextStepPc_RoutingSkipped(at) ==
    CASE at = "rot1" -> "rot2"
      [] at = "rot2" -> "rot4"
      [] at = "rot3" -> "rot4"
      [] at = "rot4" -> "rot5"
      [] at = "rot5" -> "rot6"
      [] at = "rot6" -> "rot7"

\* rotateKey: the step that follows a step which did not return an error
NextStepPc(at) ==
    CASE at = "rot1" -> "rot2"
      [] at = "rot2" -> "rot3"
      [] at = "rot3" -> "rot4"
      [] at = "rot4" -> "rot5"
      [] at = "rot5" -> "rot6"
      [] at = "rot6" -> "rot7"

RotationReturnsNil_ProbeFatal(steps) == 4 \notin steps

RotationReturnsNil_WarningsFatal(steps) == steps \cap {4, 5, 6} = {}

\* line 781: rotateKey returns nil after step 7, whichever of steps 4 to 7
\* logged a warning (steps holds their numbers)
RotationReturnsNil(steps) == TRUE

NextRotationPc_AbortOnFailure(ok) ==
    IF ok /\ pos < Len(rotations) THEN "rot1" ELSE "rotSave"

\* lines 614-627: the loop goes on to the next rotation, failed or not
NextRotationPc(ok) == IF pos < Len(rotations) THEN "rot1" ELSE "rotSave"

\* rotateKey returned for rotations[pos]; rots is rotations with its fields set
EndPair(ok, rots, steps) ==
    /\ rotations' = [rots EXCEPT ![pos].outcome = IF ok THEN "ok" ELSE "failed",
                                 ![pos].failedSteps = steps]
    /\ successful' = IF ok THEN successful + 1 ELSE successful
    /\ failed' = IF ok THEN failed ELSE failed + 1
    /\ pc' = NextRotationPc(ok)
    /\ pos' = IF NextRotationPc(ok) = "rot1" THEN pos + 1 ELSE pos

Fault(isFault) ==
    /\ isFault => faultsLeft > 0
    /\ faultsLeft' = IF isFault THEN faultsLeft - 1 ELSE faultsLeft

Event(step, ok) == ev' = <<[step |-> step, ok |-> ok, pos |-> pos]>>

\* lines 496-607: load, select, list, confirm
StartRotate ==
    /\ pc = "idle"
    /\ cmdsLeft > 0
    /\ cmdsLeft' = cmdsLeft - 1
    /\ \E targetPersona \in {EmptyStr, Str("a")}, targetPlatform \in {"", PlatformGitLab},
          rotateAll \in BOOLEAN, confirm \in BOOLEAN :
        LET rots == CollectRotations(disk, targetPersona, targetPlatform)
            usage == targetPersona = EmptyStr /\ targetPlatform = "" /\ ~rotateAll
            run == Validate(disk) /\ ~usage /\ Len(rots) > 0 /\ confirm
        IN /\ (targetPersona # EmptyStr \/ targetPlatform # "") => ~rotateAll
           /\ cmd' = [name |-> "rotate", persona |-> targetPersona,
                      platform |-> targetPlatform, fingerprint |-> EmptyStr,
                      local |-> FALSE]
           /\ cfg' = IF run THEN <<disk>> ELSE <<>>
           /\ rotations' = IF run THEN rots ELSE <<>>
           /\ pc' = IF run THEN "rot1" ELSE "idle"
           /\ pos' = IF run THEN 1 ELSE 0
           /\ result' = IF run THEN "none"
                        ELSE IF ~Validate(disk) \/ usage THEN "error" ELSE "ok"
    /\ successful' = 0 /\ failed' = 0
    /\ keysToRevoke' = <<>> /\ configChanged' = FALSE
    /\ cmdPre' = <<disk>> /\ preRot' = <<>>
    /\ deletes' = {} /\ statusWrites' = {} /\ saves' = 0
    /\ ev' = <<[step |-> "start", ok |-> TRUE, pos |-> 0]>>
    /\ UNCHANGED <<disk, files, remote, tokens, routing, nextId, faultsLeft>>
    /\ UNCHANGED <<routingHist, recVars, auxVars>>

\* step 1, lines 676-704: ssh-keygen, then the fingerprint and the public key
RotGenerate ==
    /\ pc = "rot1"
    /\ LET rot == rotations[pos]
           c == cfg[1]
       IN \E out \in {"ok", "generate", "read"} :
           /\ Fault(out # "ok")
           /\ preRot' = <<[files |-> files, routing |-> routing,
                           remote |-> remote, cfg |-> c]>>
           /\ Event("generate", out = "ok")
           /\ CASE out = "ok" ->
                    /\ files' = files \cup KeyFiles(NewKeyPath(c, rot))
                    /\ rotations' = [rotations EXCEPT
                                       ![pos].fingerprint = Fp(ToString(nextId))]
                    /\ nextId' = nextId + 1
                    /\ pc' = NextStepPc(pc)
                    /\ UNCHANGED <<pos, successful, failed>>
                [] out = "generate" ->
                    \* returns before the deferred clean-up is set up
                    /\ EndPair(FALSE, rotations, {1})
                    /\ UNCHANGED <<files, nextId>>
                [] out = "read" ->
                    \* the deferred clean-up: rot.NewKey is nil
                    /\ files' = DeleteKeyFiles(files \cup KeyFiles(NewKeyPath(c, rot)),
                                               NewKeyPath(c, rot))
                    /\ EndPair(FALSE, rotations, {1})
                    /\ UNCHANGED nextId
    /\ UNCHANGED <<disk, cfg, remote, tokens, routing, cmd, keysToRevoke, configChanged,
                   result, cmdsLeft, cmdPre, deletes, statusWrites, saves>>
    /\ UNCHANGED <<routingHist, recVars, auxVars>>

\* step 2, lines 706-722 and uploadKey
RotUpload ==
    /\ pc = "rot2"
    /\ LET rot == rotations[pos]
           c == cfg[1]
           hasToken == HasToken(rot.PlatformType, rot.Account)
           remoteID == <<"id", ToString(nextId)>>
       IN \E apiOk \in BOOLEAN :
           /\ ~hasToken => apiOk
           /\ Fault(~apiOk)
           /\ Event("upload", hasToken /\ apiOk)
           /\ IF hasToken /\ apiOk
              THEN /\ remote' = remote \cup {remoteID}
                   /\ nextId' = nextId + 1
                   /\ rotations' = [rotations EXCEPT ![pos].NewKey =
                        <<KeyConfig(RotationKeyType(c), rot.fingerprint,
                                    NewKeyPath(c, rot), remoteID, KeyStatusActive)>>]
                   /\ pc' = NextStepPc(pc)
                   /\ UNCHANGED <<files, pos, successful, failed>>
              ELSE \* the deferred clean-up: rot.NewKey is nil
                   /\ files' = DeleteKeyFiles(files, NewKeyPath(c, rot))
                   /\ EndPair(FALSE, rotations, {2})
                   /\ UNCHANGED <<remote, nextId>>
    /\ UNCHANGED <<disk, cfg, tokens, routing, cmd, keysToRevoke, configChanged,
                   result, cmdsLeft, preRot, cmdPre, deletes, statusWrites, saves>>
    /\ UNCHANGED <<routingHist, recVars, auxVars>>

\* step 3, lines 724-730 and updateSSHConfigForRotation
RotRouting ==
    /\ pc = "rot3"
    /\ LET rot == rotations[pos]
           c == cfg[1]
           remoteID == rot.NewKey[1].RemoteID
       IN \E ok \in BOOLEAN, deleted \in BOOLEAN :
           /\ ok => deleted
           /\ Fault(~ok)
           /\ Event("routing", ok)
           /\ IF ok
              THEN /\ routing' = AddOrUpdateEntry(routing, RotationBlockID(rot),
                                                  <<RotationEntry(c, rot)>>)
                   /\ pc' = NextStepPc(pc)
                   /\ UNCHANGED <<remote, deletes, rotations, pos, successful, failed>>
              ELSE \* deleteKey(ctx, rot, remoteID), its error dropped; rot.NewKey is
                   \* set, so the deferred clean-up leaves the new key files
                   /\ deletes' = deletes \cup {remoteID}
                   /\ remote' = IF deleted THEN remote \ {remoteID} ELSE remote
                   /\ EndPair(FALSE, rotations, {3})
                   /\ UNCHANGED routing
    /\ UNCHANGED <<disk, cfg, files, tokens, cmd, keysToRevoke, configChanged,
                   result, nextId, cmdsLeft, preRot, cmdPre, statusWrites, saves>>
    /\ UNCHANGED <<routingHist, recVars, auxVars>>

\* step 4, lines 732-741: the connectivity probe
RotValidate ==
    /\ pc = "rot4"
    /\ \E ok \in BOOLEAN :
        /\ Fault(~ok)
        /\ Event("validate", ok)
        /\ rotations' = [rotations EXCEPT ![pos].failedSteps =
                           IF ok THEN @ ELSE @ \cup {4}]
    /\ pc' = NextStepPc(pc)
    /\ UNCHANGED <<disk, cfg, files, remote, tokens, routing, cmd, keysToRevoke, pos,
                   successful, failed, configChanged, result, nextId, cmdsLeft,
                   preRot, cmdPre, deletes, statusWrites, saves>>
    /\ UNCHANGED <<routingHist, recVars, auxVars>>

\* step 5, lines 743-753 and deleteKey
RotRevokeOld ==
    /\ pc = "rot5"
    /\ LET rot == rotations[pos]
           old == rot.OldKey.RemoteID
           hasToken == HasToken(rot.PlatformType, rot.Account)
       IN \E apiOk \in BOOLEAN :
           /\ (old = EmptyStr \/ ~hasToken) => apiOk
           /\ Fault(~apiOk)
           /\ Event("revokeOld", old = EmptyStr \/ (hasToken /\ apiOk))
           /\ IF old = EmptyStr
              THEN UNCHANGED <<remote, deletes, rotations>>
              ELSE IF ~hasToken
              THEN /\ rotations' = [rotations EXCEPT ![pos].failedSteps = @ \cup {5}]
                   /\ UNCHANGED <<remote, deletes>>
              ELSE /\ deletes' = deletes \cup {old}
                   /\ remote' = IF apiOk THEN remote \ {old} ELSE remote
                   /\ rotations' = [rotations EXCEPT ![pos].failedSteps =
                                      IF apiOk THEN @ ELSE @ \cup {5}]
    /\ pc' = NextStepPc(pc)
    /\ UNCHANGED <<disk, cfg, files, tokens, routing, cmd, keysToRevoke, pos,
                   successful, failed, configChanged, result, nextId, cmdsLeft,
                   preRot, cmdPre, statusWrites, saves>>
    /\ UNCHANGED <<routingHist, recVars, auxVars>>

\* step 6, lines 755-764 and archiveOldKey
RotArchive ==
    /\ pc = "rot6"
    /\ LET rot == rotations[pos]
           path == rot.OldKey.LocalPath
       IN \E ok \in BOOLEAN :
           /\ path = EmptyStr => ok
           /\ Fault(~ok)
           /\ Event("archive", ok)
           /\ files' = IF path # EmptyStr /\ ok THEN archiveOldKey(files, path) ELSE files
           /\ rotations' = [rotations EXCEPT ![pos].failedSteps =
                              IF ok THEN @ ELSE @ \cup {6}]
    /\ pc' = NextStepPc(pc)
    /\ UNCHANGED <<disk, cfg, remote, tokens, routing, cmd, keysToRevoke, pos,
                   successful, failed, configChanged, result, nextId, cmdsLeft,
                   preRot, cmdPre, deletes, statusWrites, saves>>
    /\ UNCHANGED <<routingHist, recVars, auxVars>>

\* step 7, lines 766-781: rename the key files, put NewKey in the model
RotCommit ==
    /\ pc = "rot7"
    /\ LET rot == rotations[pos]
           c == cfg[1]
           from == NewKeyPath(c, rot)
           to == KeyFileName(c, rot)
       IN \E ok \in BOOLEAN :
           /\ from \notin files => ~ok
           /\ Fault(~ok /\ from \in files)
           /\ Event("commit", ok)
           /\ files' = IF ok
                       THEN Rename(Rename(files, from, to),
                                   from \o Str(".pub"), to \o Str(".pub"))
                       ELSE files
           /\ LET newKey == IF ok THEN [rot.NewKey[1] EXCEPT !.LocalPath = to]
                            ELSE rot.NewKey[1]
              IN /\ cfg' = <<SetKey(c, rot.PersonaIdx, rot.PlatformIdx, rot.KeyIdx, newKey)>>
                 /\ EndPair(RotationReturnsNil(rot.failedSteps),
                            [rotations EXCEPT ![pos].NewKey = <<newKey>>],
                            IF ok THEN rot.failedSteps ELSE rot.failedSteps \cup {7})
    /\ UNCHANGED <<disk, remote, tokens, routing, cmd, keysToRevoke, configChanged,
                   result, nextId, cmdsLeft, preRot, cmdPre, deletes, statusWrites, saves>>
    /\ UNCHANGED <<routingHist, recVars, auxVars>>

SaveAfterRotations_Always(succeeded) == TRUE

\* lines 629-634: the model is saved when a rotation succeeded
SaveAfterRotations(succeeded) == succeeded > 0

\* lines 629-643: save when a rotation succeeded, fail when one failed
RotSave ==
    /\ pc = "rotSave"
    /\ IF SaveAfterRotations(successful)
       THEN IF Save(cfg[1])
            THEN /\ disk' = cfg[1]
                 /\ saves' = saves + 1
                 /\ result' = IF failed > 0 THEN "error" ELSE "ok"
            ELSE /\ result' = "error"
                 /\ UNCHANGED <<disk, saves>>
       ELSE /\ result' = IF failed > 0 THEN "error" ELSE "ok"
            /\ UNCHANGED <<disk, saves>>
    /\ pc' = "idle"
    /\ cfg' = <<>>
    /\ Event("rotSave", TRUE)
    /\ UNCHANGED <<files, remote, tokens, routing, cmd, rotations, keysToRevoke, pos,
                   successful, failed, configChanged, nextId, faultsLeft, cmdsLeft,
                   preRot, cmdPre, deletes, statusWrites>>
    /\ UNCHANGED <<routingHist, recVars, auxVars>>

----------------------------------------------------------------------------
(* revoke (status.go) *)

\* keyRevocation; PersonaRef and PlatformRef point at copies of the loop
\* variables (the Keys of the copy share the model's array), slot names the
\* place of Key in the model; outcome is history
KeyRevocation(c, slot) ==
    LET persona == c.Personas[slot[1]]
        platform == persona.Platforms[slot[2]]
    IN [Persona |-> persona.Name, Platform |-> platform.Type,
        Account |-> platform.Account, BaseURL |-> platform.BaseURL,
        Key |-> platform.Keys[slot[3]], slot |-> slot, outcome |-> "pending"]

\* runRevoke, lines 1145-1175: the keys the arguments select, revoked ones left out
CollectRevocations(c, targetPersona, targetPlatform) ==
    LET slots == { sl \in KeySlots(c) :
                     /\ Selected(c, sl, targetPersona, targetPlatform)
                     /\ KeyAt(c, sl[1], sl[2], sl[3]).Status # KeyStatusRevoked }
        order == InLoopOrder(slots)
    IN [n \in 1..Len(order) |-> KeyRevocation(c, order[n])]

\* revokeKey: "none" (no remote id: nothing to do), "notoken", or "call"
RevokeKeyPath(kr) ==
    IF kr.Key.RemoteID = EmptyStr THEN "none"
    ELSE IF ~HasToken(kr.Platform, kr.Account) THEN "notoken"
    ELSE "call"

NormalizeFingerprint(fp) == TrimPrefix(fp, Str("SHA256:"))

FingerprintMatches_Prefix(keyFingerprint, fingerprint) ==
    HasPrefix(NormalizeFingerprint(keyFingerprint), fingerprint)

\* revokeByFingerprint, lines 1318-1319
FingerprintMatches(keyFingerprint, fingerprint) ==
    NormalizeFingerprint(keyFingerprint) = fingerprint

\* revokeByFingerprint, lines 1311-1339: <<>> or <<the first matching slot>>
FindByFingerprint(c, input) ==
    LET fingerprint == NormalizeFingerprint(input)
        hits == { sl \in KeySlots(c) :
                    FingerprintMatches(KeyAt(c, sl[1], sl[2], sl[3]).Fingerprint,
                                       fingerprint) }
    IN IF hits = {} THEN <<>> ELSE <<InLoopOrder(hits)[1]>>

\* revokeByFingerprint, lines 1366-1371: the first key of the platform with
\* the fingerprint of the key found
FirstWithFingerprint(keys, fingerprint) ==
    LET hits == {k \in 1..Len(keys) : keys[k].Fingerprint = fingerprint}
    IN CHOOSE k \in hits : \A j \in hits : k <= j

RevokeInputs ==
    { [persona |-> Str("a"), platform |-> "", fingerprint |-> EmptyStr, all |-> FALSE],
      [persona |-> EmptyStr, platform |-> PlatformGitHub, fingerprint |-> EmptyStr,
       all |-> FALSE],
      [persona |-> EmptyStr, platform |-> "", fingerprint |-> Fp("f1"), all |-> FALSE],
      [persona |-> EmptyStr, platform |-> "", fingerprint |-> Str("f2"), all |-> FALSE],
      [persona |-> EmptyStr, platform |-> "", fingerprint |-> Fp("zz"), all |-> FALSE],
      [persona |-> EmptyStr, platform |-> "", fingerprint |-> Str("SHA256:"),
       all |-> FALSE],
      [persona |-> EmptyStr, platform |-> "", fingerprint |-> EmptyStr, all |-> TRUE],
      [persona |-> EmptyStr, platform |-> "", fingerprint |-> EmptyStr, all |-> FALSE] }

\* runRevoke, lines 1106-1203: load, select, list, confirm
StartRevoke ==
    /\ pc = "idle"
    /\ cmdsLeft > 0
    /\ cmdsLeft' = cmdsLeft - 1
    /\ \E in \in RevokeInputs, local \in BOOLEAN, confirm \in BOOLEAN :
        LET byArgs == in.persona # EmptyStr \/ in.platform # ""
            byFingerprint == ~byArgs /\ in.fingerprint # EmptyStr
            usage == ~byArgs /\ ~byFingerprint /\ ~in.all
            keys == CollectRevocations(disk, in.persona, in.platform)
            loaded == Validate(disk)
            run == loaded /\ ~byFingerprint /\ ~usage /\ Len(keys) > 0 /\ confirm
        IN /\ cmd' = [name |-> "revoke", persona |-> in.persona, platform |-> in.platform,
                      fingerprint |-> in.fingerprint, local |-> local,
                      confirm |-> confirm]
           /\ cfg' = IF loaded /\ (run \/ byFingerprint) THEN <<disk>> ELSE <<>>
           /\ keysToRevoke' = IF run THEN keys ELSE <<>>
           /\ pc' = IF loaded /\ byFingerprint THEN "revFp"
                    ELSE IF run THEN "rev" ELSE "idle"
           /\ pos' = IF run THEN 1 ELSE 0
           /\ result' = IF run \/ (loaded /\ byFingerprint) THEN "none"
                        ELSE IF ~loaded \/ usage THEN "error" ELSE "ok"
    /\ successful' = 0 /\ failed' = 0
    /\ rotations' = <<>> /\ configChanged' = FALSE
    /\ cmdPre' = <<disk>> /\ preRot' = <<>>
    /\ deletes' = {} /\ statusWrites' = {} /\ saves' = 0
    /\ ev' = <<[step |-> "start", ok |-> TRUE, pos |-> 0]>>
    /\ UNCHANGED <<disk, files, remote, tokens, routing, nextId, faultsLeft>>
    /\ UNCHANGED <<routingHist, recVars, auxVars>>

NextRevocationPc_StopOnFailure(ok) ==
    IF ok /\ pos < Len(keysToRevoke) THEN "rev"
    ELSE IF cmd.local THEN "revLocal" ELSE "revSave"

\* runRevoke, lines 1207-1212: the loop goes on to the next target, revoked or
\* not, and then to the local deletion or the save
NextRevocationPc(ok) ==
    IF pos < Len(keysToRevoke) THEN "rev"
    ELSE IF cmd.local THEN "revLocal" ELSE "revSave"

\* runRevoke, lines 1207-1218: revokeKey for keysToRevoke[pos]; the status is
\* set in kr.Key, which is the copy made when the list was built
RevokeStep ==
    /\ pc = "rev"
    /\ LET kr == keysToRevoke[pos]
           path == RevokeKeyPath(kr)
       IN \E apiOk \in BOOLEAN :
           /\ path # "call" => apiOk
           /\ Fault(~apiOk)
           /\ LET ok == path = "none" \/ (path = "call" /\ apiOk)
              IN /\ Event("revoke", ok)
                 /\ keysToRevoke' =
                      IF ok THEN [keysToRevoke EXCEPT ![pos].Key.Status = KeyStatusRevoked,
                                                      ![pos].outcome = "ok"]
                      ELSE [keysToRevoke EXCEPT ![pos].outcome = "failed"]
                 /\ deletes' = IF path = "call" THEN deletes \cup {kr.Key.RemoteID}
                               ELSE deletes
                 /\ remote' = IF path = "call" /\ apiOk THEN remote \ {kr.Key.RemoteID}
                              ELSE remote
                 /\ pos' = IF NextRevocationPc(ok) = "rev" THEN pos + 1 ELSE pos
                 /\ pc' = NextRevocationPc(ok)
    /\ UNCHANGED <<disk, cfg, files, tokens, routing, cmd, rotations, successful, failed,
                   configChanged, result, nextId, cmdsLeft, preRot, cmdPre,
                   statusWrites, saves>>
    /\ UNCHANGED <<routingHist, recVars, auxVars>>

\* the key files the loop of lines 1226-1237 removes
RECURSIVE LocalFilesOf(_)
LocalFilesOf(krs) ==
    IF krs = <<>> THEN {}
    ELSE (IF Head(krs).Key.LocalPath = EmptyStr THEN {}
          ELSE KeyFiles(Head(krs).Key.LocalPath))
         \cup LocalFilesOf(Tail(krs))

\* runRevoke, lines 1220-1238: --local
RevokeLocal ==
    /\ pc = "revLocal"
    /\ files' = files \ LocalFilesOf(keysToRevoke)
    /\ pc' = "revSave"
    /\ Event("revokeLocal", TRUE)
    /\ UNCHANGED <<disk, cfg, remote, tokens, routing, cmd, rotations, keysToRevoke, pos,
                   successful, failed, configChanged, result, nextId, faultsLeft,
                   cmdsLeft, preRot, cmdPre, deletes, statusWrites, saves>>
    /\ UNCHANGED <<routingHist, recVars, auxVars>>

\* runRevoke, lines 1240-1250
RevokeSave ==
    /\ pc = "revSave"
    /\ IF Save(cfg[1])
       THEN disk' = cfg[1] /\ saves' = saves + 1 /\ result' = "ok"
       ELSE result' = "error" /\ UNCHANGED <<disk, saves>>
    /\ pc' = "idle"
    /\ cfg' = <<>>
    /\ Event("revokeSave", TRUE)
    /\ UNCHANGED <<files, remote, tokens, routing, cmd, rotations, keysToRevoke, pos,
                   successful, failed, configChanged, nextId, faultsLeft, cmdsLeft,
                   preRot, cmdPre, deletes, statusWrites>>
    /\ UNCHANGED <<routingHist, recVars, auxVars>>

\* revokeByFingerprint, the whole function
RevokeByFingerprint ==
    /\ pc = "revFp"
    /\ LET c == cfg[1]
           found == FindByFingerprint(c, cmd.fingerprint)
       IN IF found = <<>>
          THEN /\ result' = "notfound"
               /\ Event("revokeFp", FALSE)
               /\ keysToRevoke' = <<>>
               /\ UNCHANGED <<disk, remote, deletes, statusWrites, saves, faultsLeft>>
          ELSE IF ~cmd.confirm
          THEN /\ result' = "ok"
               /\ Event("revokeFp", TRUE)
               /\ keysToRevoke' = <<>>
               /\ UNCHANGED <<disk, remote, deletes, statusWrites, saves, faultsLeft>>
          ELSE
            LET kr == KeyRevocation(c, found[1])
                path == RevokeKeyPath(kr)
                keys == c.Personas[found[1][1]].Platforms[found[1][2]].Keys
                k == FirstWithFingerprint(keys, kr.Key.Fingerprint)
                revoked == [c EXCEPT !.Personas[found[1][1]].Platforms[found[1][2]]
                                       .Keys[k].Status = KeyStatusRevoked]
            IN \E apiOk \in BOOLEAN :
                /\ path # "call" => apiOk
                /\ Fault(~apiOk)
                /\ LET ok == path = "none" \/ (path = "call" /\ apiOk)
                   IN /\ Event("revokeFp", ok)
                      /\ keysToRevoke' =
                           <<[kr EXCEPT !.outcome = IF ok THEN "ok" ELSE "failed"]>>
                      /\ deletes' = IF path = "call" THEN deletes \cup {kr.Key.RemoteID}
                                    ELSE deletes
                      /\ remote' = IF path = "call" /\ apiOk
                                   THEN remote \ {kr.Key.RemoteID} ELSE remote
                      /\ statusWrites' = IF ok
                                         THEN statusWrites \cup {<<found[1][1], found[1][2], k>>}
                                         ELSE statusWrites
                      /\ IF ok /\ Save(revoked)
                         THEN disk' = revoked /\ saves' = saves + 1 /\ result' = "ok"
                         ELSE result' = "error" /\ UNCHANGED <<disk, saves>>
    /\ pc' = "idle"
    /\ cfg' = <<>>
    /\ UNCHANGED <<files, tokens, routing, cmd, rotations, pos, successful, failed,
                   configChanged, nextId, cmdsLeft, preRot, cmdPre>>
    /\ UNCHANGED <<routingHist, recVars, auxVars>>

----------------------------------------------------------------------------
(* apply (runApply, updateSSHConfig, sanitizeHostname) *)

sanitizeHostname(name) ==
    RemoveAll(RemoveAll(RemoveAll(RemoveAll(name, " "), "@"), "#"), "$")

\* updateSSHConfig, lines 527-535
ApplyHostname(platform) ==
    IF platform.Type = PlatformGitLab
    THEN IF platform.BaseURL # EmptyStr /\ platform.BaseURL # Str("https://") \o GitlabCom
         THEN TrimPrefix(TrimPrefix(platform.BaseURL, Str("https://")), Str("http://"))
         ELSE GitlabCom
    ELSE GithubCom

\* updateSSHConfig, lines 539-550
ApplyEntry(persona, platform, key) ==
    Entry(ApplyHostname(platform) \o Str(".") \o sanitizeHostname(persona.Name),
          ApplyHostname(platform), Str("git"), Str("~/.ssh/") \o key.LocalPath,
          <<<<Str("IdentitiesOnly"), Str("yes")>>>>)

updateSSHConfig(lines, persona, platform, key) ==
    AddOrUpdateEntry(lines,
                     GetManagedBlockID(persona.Name, platform.Type, platform.Account),
                     <<ApplyEntry(persona, platform, key)>>)

\* the platforms in the order of runApply's nested loops
ApplyOrder(c) == InLoopOrder(PlatformSlots(c))

\* runApply, lines 48-102: load, confirm
StartApply ==
    /\ pc = "idle"
    /\ cmdsLeft > 0
    /\ cmdsLeft' = cmdsLeft - 1
    /\ \E confirm \in BOOLEAN :
        LET run == Validate(disk) /\ confirm
        IN /\ cmd' = [name |-> "apply", persona |-> EmptyStr, platform |-> "",
                      fingerprint |-> EmptyStr, local |-> FALSE, confirm |-> confirm]
           /\ cfg' = IF run THEN <<disk>> ELSE <<>>
           /\ pc' = IF run THEN "apply" ELSE "idle"
           /\ pos' = IF run THEN 1 ELSE 0
           /\ result' = IF run THEN "none"
                        ELSE IF ~Validate(disk) THEN "error" ELSE "ok"
    /\ successful' = 0 /\ failed' = 0
    /\ rotations' = <<>> /\ keysToRevoke' = <<>> /\ configChanged' = FALSE
    /\ cmdPre' = <<disk>> /\ preRot' = <<>>
    /\ deletes' = {} /\ statusWrites' = {} /\ saves' = 0
    /\ ev' = <<[step |-> "start", ok |-> TRUE, pos |-> 0]>>
    /\ UNCHANGED <<disk, files, remote, tokens, routing, nextId, faultsLeft>>
    /\ UNCHANGED <<routingHist, recVars, auxVars>>

\* runApply, lines 104-151: one turn of the first loop: a key for the
\* platform when it has no active one, then its routing entry.  Any failure
\* returns from the command.
ApplyPair ==
    /\ pc = "apply"
    /\ LET c == cfg[1]
           slot == ApplyOrder(c)[pos]
           persona == c.Personas[slot[1]]
           platform == persona.Platforms[slot[2]]
           active == GetActiveKey(platform)
           keyFileName == BuildKeyFileName(platform.Type, platform.Account, c.KeyType)
           newKey == KeyConfig(c.KeyType, Fp(ToString(nextId)), keyFileName, EmptyStr,
                               KeyStatusActive)
           key == IF active = <<>> THEN newKey ELSE active[1]
           last == pos = Len(ApplyOrder(c))
       IN \E out \in {"ok", "generate", "read", "routing"} :
           /\ active # <<>> => out \in {"ok", "routing"}
           /\ (active = <<>> /\ c.KeyType = "") => out = "generate"
           /\ Fault(out # "ok")
           /\ Event("applyPair", out = "ok")
           /\ files' = IF active = <<>> /\ out # "generate"
                       THEN files \cup KeyFiles(keyFileName) ELSE files
           /\ IF active = <<>> /\ out \in {"ok", "routing"}
              THEN /\ nextId' = nextId + 1
                   /\ configChanged' = TRUE
              ELSE UNCHANGED <<nextId, configChanged>>
           /\ routing' = IF out = "ok"
                         THEN updateSSHConfig(routing, persona, platform, key)
                         ELSE routing
           /\ IF out = "ok"
              THEN /\ cfg' = IF active = <<>>
                             THEN <<[c EXCEPT !.Personas[slot[1]].Platforms[slot[2]].Keys =
                                                Append(@, newKey)]>>
                             ELSE cfg
                   /\ pc' = IF last THEN "applySave" ELSE "apply"
                   /\ pos' = IF last THEN pos ELSE pos + 1
                   /\ UNCHANGED result
              ELSE /\ cfg' = <<>>
                   /\ pc' = "idle"
                   /\ result' = "error"
                   /\ UNCHANGED pos
    /\ UNCHANGED <<disk, remote, tokens, cmd, rotations, keysToRevoke, successful, failed,
                   cmdsLeft, preRot, cmdPre, deletes, statusWrites, saves>>
    /\ UNCHANGED <<routingHist, recVars, auxVars>>

\* runApply, lines 153-159
ApplySave ==
    /\ pc = "applySave"
    /\ IF configChanged /\ ~Save(cfg[1])
       THEN /\ pc' = "idle" /\ result' = "error" /\ cfg' = <<>>
            /\ UNCHANGED <<disk, saves, pos>>
       ELSE /\ disk' = IF configChanged THEN cfg[1] ELSE disk
            /\ saves' = IF configChanged THEN saves + 1 ELSE saves
            /\ pc' = "applyUpload" /\ pos' = 1
            /\ UNCHANGED <<result, cfg>>
    /\ Event("applySave", TRUE)
    /\ UNCHANGED <<files, remote, tokens, routing, cmd, rotations, keysToRevoke,
                   successful, failed, configChanged, nextId, faultsLeft, cmdsLeft,
                   preRot, cmdPre, deletes, statusWrites>>
    /\ UNCHANGED <<routingHist, recVars, auxVars>>

\* runApply, lines 161-185 and uploadKeyToPlatform: one turn of the second
\* loop; a failed upload (no token in the environment, or the API) is a warning
ApplyUpload ==
    /\ pc = "applyUpload"
    /\ LET c == cfg[1]
           slot == ApplyOrder(c)[pos]
           platform == c.Personas[slot[1]].Platforms[slot[2]]
           k == ActiveKeyIdx(platform)
           skip == k = 0 \/ platform.Keys[k].RemoteID # EmptyStr
           remoteID == <<"id", ToString(nextId)>>
           last == pos = Len(ApplyOrder(c))
       IN \E uploaded \in BOOLEAN :
           /\ skip => ~uploaded
           /\ Event("applyUpload", skip \/ uploaded)
           /\ IF uploaded
              THEN /\ cfg' = <<[c EXCEPT !.Personas[slot[1]].Platforms[slot[2]]
                                          .Keys[k].RemoteID = remoteID]>>
                   /\ remote' = remote \cup {remoteID}
                   /\ nextId' = nextId + 1
                   /\ configChanged' = TRUE
              ELSE UNCHANGED <<cfg, remote, nextId, configChanged>>
           /\ pc' = IF last THEN "applyDone" ELSE "applyUpload"
           /\ pos' = IF last THEN pos ELSE pos + 1
    /\ UNCHANGED <<disk, files, tokens, routing, cmd, rotations, keysToRevoke, successful,
                   failed, result, faultsLeft, cmdsLeft, preRot, cmdPre, deletes,
                   statusWrites, saves>>
    /\ UNCHANGED <<routingHist, recVars, auxVars>>

\* runApply, lines 187-217: the later saves; a failure there is a warning.
\* (The git-config step between them sets GitDir, which the model leaves out.)
ApplyFinish ==
    /\ pc = "applyDone"
    /\ IF configChanged /\ Save(cfg[1])
       THEN disk' = cfg[1] /\ saves' = saves + 1
       ELSE UNCHANGED <<disk, saves>>
    /\ pc' = "idle"
    /\ result' = "ok"
    /\ cfg' = <<>>
    /\ Event("applyDone", TRUE)
    /\ UNCHANGED <<files, remote, tokens, routing, cmd, rotations, keysToRevoke, pos,
                   successful, failed, configChanged, nextId, faultsLeft, cmdsLeft,
                   preRot, cmdPre, deletes, statusWrites>>
    /\ UNCHANGED <<routingHist, recVars, auxVars>>

----------------------------------------------------------------------------
(* Spec: one command of the key lifecycle, from a declared model and the
   files, registrations and routing file that an earlier apply left for it *)

\* the user's own part of ~/.ssh/config
UserRouting == <<Str("Host ") \o Str("x"), EmptyStr>>

RECURSIVE RoutingAfterApply(_, _, _)
RoutingAfterApply(c, order, lines) ==
    IF order = <<>> THEN lines
    ELSE LET persona == c.Personas[Head(order)[1]]
             platform == persona.Platforms[Head(order)[2]]
             active == GetActiveKey(platform)
         IN RoutingAfterApply(c, Tail(order),
              IF active = <<>> THEN lines
              ELSE updateSSHConfig(lines, persona, platform, active[1]))

TokenSets ==
    { { <<"git-keys-github", AcctX>>, <<"git-keys-github", AcctY>>,
        <<"git-keys-gitlab", Str("default")>> },
      { <<"git-keys-github", Str("default")>> },
      {} }

InitWorld(c) ==
    /\ disk = c
    /\ files = UNION { KeyFiles(k.LocalPath) : k \in AllKeys(c) }
    /\ remote = { k.RemoteID : k \in { x \in AllKeys(c) :
                    x.RemoteID # EmptyStr /\ x.Status # KeyStatusRevoked } }
    /\ routing = RoutingAfterApply(c, InLoopOrder(PlatformSlots(c)), UserRouting)
    /\ tokens \in TokenSets
    /\ cfg = <<>> /\ pc = "idle" /\ cmd = <<>> /\ rotations = <<>> /\ keysToRevoke = <<>>
    /\ pos = 0 /\ successful = 0 /\ failed = 0 /\ configChanged = FALSE
    /\ result = "none" /\ nextId = 1
    /\ ev = <<>> /\ preRot = <<>> /\ cmdPre = <<>> /\ deletes = {}
    /\ statusWrites = {} /\ saves = 0
    /\ rPrev = <<>> /\ rBlock = <<>> /\ rEntries = <<>> /\ rCalls = 0
    /\ RecParked
    /\ AuxParked

Init ==
    /\ \E c \in DeclaredConfigs : InitWorld(c)
    /\ faultsLeft = MaxFaults
    /\ cmdsLeft = 1

Next ==
    \/ StartRotate
    \/ RotGenerate
    \/ RotUpload
    \/ RotRouting
    \/ RotValidate
    \/ RotRevokeOld
    \/ RotArchive
    \/ RotCommit
    \/ RotSave
    \/ StartRevoke
    \/ RevokeStep
    \/ RevokeLocal
    \/ RevokeSave
    \/ RevokeByFingerprint
    \/ StartApply
    \/ ApplyPair
    \/ ApplySave
    \/ ApplyUpload
    \/ ApplyFinish

Spec == Init /\ [][Next]_vars

----------------------------------------------------------------------------
(* SpecRecommend: analyzeAndRecommend over small scan snapshots *)

DiscoveredPlatform(type, baseURL) == [Type |-> type, BaseURL |-> baseURL]

GitInclude(name, condition, email, discovered) ==
    [Name |-> name, Condition |-> condition, Email |-> email,
     DiscoveredPlatforms |-> discovered]

SSHConfigHost(hostName, identityFile) ==
    [HostName |-> hostName, IdentityFile |-> identityFile]

ScanIncludes ==
    { GitInclude(EmptyStr, <<"~", "/", "work", "/">>, Email2,
                 <<DiscoveredPlatform(PlatformGitHub, EmptyStr)>>),
      GitInclude(EmptyStr, <<"~", "/", "src", "/", "oss", "/">>, <<"c", "@", "m">>,
                 <<DiscoveredPlatform(PlatformGitLab, <<"https://">> \o GitlabCorp),
                   DiscoveredPlatform(PlatformGitHub, EmptyStr)>>),
      GitInclude(<<"K", " ", "L">>, <<"~", "/", "personal", "/">>, Email1, <<>>) }

ScanHosts ==
    { SSHConfigHost(GithubCom, Str("k1")),
      SSHConfigHost(GitlabCom, Str("k2")),
      SSHConfigHost(GitlabCorp, Str("k3")) }

ScanResult(globalEmail, includes, hosts) ==
    [GlobalEmail |-> globalEmail, Includes |-> includes, SSHConfigHosts |-> hosts]

Scans ==
    { ScanResult(g, incs, hosts) :
        g \in {EmptyStr, Email1},
        incs \in SeqsUpTo(ScanIncludes, MaxIncludes),
        hosts \in SeqsUpTo(ScanHosts, MaxHosts) }

InitRecommend ==
    /\ recScan \in Scans
    /\ recCfg \in {<<>>} \cup {<<c>> : c \in DeclaredConfigs}
    /\ recOut = <<>>
    /\ RoutingParked
    /\ LifeParked
    /\ AuxParked

Recommend ==
    /\ recOut = <<>>
    /\ \E r \in analyzeAndRecommend(recScan, recCfg) : recOut' = <<r>>
    /\ UNCHANGED <<recScan, recCfg, routingVars, lifeVars, auxVars>>

NextRecommend == Recommend

SpecRecommend == InitRecommend /\ [][NextRecommend]_vars

----------------------------------------------------------------------------
(* C9 *)

\* the recommended platform stands for the declared platform
MirrorsPlatform(rp, p) ==
    /\ rp.Type = p.Type
    /\ rp.Account = p.Account
    /\ rp.BaseURL = p.BaseURL
    /\ IF \E k \in 1..Len(p.Keys) : p.Keys[k].Status = KeyStatusActive
       THEN \E k \in 1..Len(p.Keys) :
              /\ p.Keys[k].Status = KeyStatusActive
              /\ rp.KeyPath = p.Keys[k].LocalPath
       ELSE rp.KeyPath = EmptyStr

MirrorsPersona(rp, p) ==
    /\ rp.Name = p.Name
    /\ rp.Email = p.Email
    /\ Len(rp.Platforms) = Len(p.Platforms)
    /\ \A j \in 1..Len(p.Platforms) : MirrorsPlatform(rp.Platforms[j], p.Platforms[j])

\* C9: with a declared config the recommendation holds the declared personas
\* in their order, each with exactly its declared platforms (type, account,
\* base URL, the active key's path), whatever the scan snapshot holds.
C9_DeclaredConfigIsMirrored ==
    (recCfg # <<>> /\ recOut # <<>>) =>
        /\ Len(recOut[1]) = Len(recCfg[1].Personas)
        /\ \A i \in 1..Len(recOut[1]) : MirrorsPersona(recOut[1][i], recCfg[1].Personas[i])

\* a declared config was mirrored although the scan alone infers personas
\* and platforms
C9_Witness ==
    /\ recCfg = <<CfgRotated>>
    /\ recOut # <<>>
    /\ recScan.GlobalEmail # EmptyStr
    /\ Len(recScan.SSHConfigHosts) > 0
    /\ Len(recScan.Includes) > 0
    /\ HostIsPlatform(recScan.SSHConfigHosts[1])

----------------------------------------------------------------------------
(* reading the routing file back *)

\* the lines between the start marker with exactly this id and the next end
\* marker
BlockLines(lines, blockID) ==
    LET starts == { j \in 1..Len(lines) : TrimSpace(lines[j]) = StartMarker(blockID) }
        ends == { j \in 1..Len(lines) : TrimSpace(lines[j]) = managedBlockEnd }
        inBlock(i) == \E j \in starts : j < i /\ \A k \in ends : ~(j < k /\ k < i)
        Inside(i) == i \notin starts /\ i \notin ends /\ inBlock(i)
        inside == SelectSeq([i \in 1..Len(lines) |-> i], Inside)
    IN [n \in 1..Len(inside) |-> lines[inside[n]]]

\* the values of one keyword in those lines
BlockValues(lines, blockID, keyword) ==
    { TrimPrefix(TrimLeft(l), Str(keyword)) :
        l \in { x \in SeqRange(BlockLines(lines, blockID)) :
                  HasPrefix(TrimLeft(x), Str(keyword)) } }

HasBlock(lines, blockID) ==
    \E i \in 1..Len(lines) : TrimSpace(lines[i]) = StartMarker(blockID)

----------------------------------------------------------------------------
(* claims about rotate *)

LastStep == IF ev = <<>> THEN "none" ELSE ev[1].step

\* rotateKey has just returned for rotations[ev[1].pos]
PairJustEnded ==
    /\ LastStep \in {"generate", "upload", "routing", "commit"}
    /\ rotations[ev[1].pos].outcome # "pending"

EndedRot == rotations[ev[1].pos]

\* C1: after a rotation whose seven steps all succeeded, the pair's managed
\* routing entry names the new key's permanent path, the LocalPath of the
\* committed KeyConfig, at which the key file is, and not the "-new" path.
C1_RoutingNamesPermanentPath ==
    (PairJustEnded /\ EndedRot.outcome = "ok" /\ EndedRot.failedSteps = {}) =>
        /\ BlockValues(routing, RotationBlockID(EndedRot), "IdentityFile ")
             = {EndedRot.NewKey[1].LocalPath}
        /\ EndedRot.NewKey[1].LocalPath \in files

\* C3: a pair's rotation in which a step failed leaves the key files, the
\* routing file, the remote registrations and the model as they were when
\* the rotation started.
C3_FailedRotationRolledBack ==
    (PairJustEnded /\ EndedRot.failedSteps # {}) =>
        /\ files = preRot[1].files
        /\ routing = preRot[1].routing
        /\ remote = preRot[1].remote
        /\ cfg[1] = preRot[1].cfg

RotSlotKey(c, rot) == KeyAt(c, rot.PersonaIdx, rot.PlatformIdx, rot.KeyIdx)

ActiveIdx(keys) == {k \in 1..Len(keys) : keys[k].Status = KeyStatusActive}

\* C5: after a successful rotation of a pair whose platform held exactly one
\* active KeyConfig, the platform holds exactly one active KeyConfig: the
\* new key (new fingerprint, new remote id), in the list position of the
\* prior one, which is gone from the list; the other entries are untouched.
C5_OneActiveKeyInPlace ==
    (PairJustEnded /\ EndedRot.outcome = "ok") =>
        LET before == preRot[1].cfg.Personas[EndedRot.PersonaIdx]
                        .Platforms[EndedRot.PlatformIdx].Keys
            after == cfg[1].Personas[EndedRot.PersonaIdx]
                        .Platforms[EndedRot.PlatformIdx].Keys
            k == EndedRot.KeyIdx
        IN Cardinality(ActiveIdx(before)) = 1 =>
            /\ ActiveIdx(after) = {k}
            /\ ActiveIdx(before) = {k}
            /\ Len(after) = Len(before)
            /\ \A j \in 1..Len(before) : j # k => after[j] = before[j]
            /\ \A j \in 1..Len(before) :
                 /\ after[k].Fingerprint # before[j].Fingerprint
                 /\ after[k].RemoteID # before[j].RemoteID
            /\ after[k].RemoteID \in remote
            /\ before[k] \notin SeqRange(after)

\* the rotated key stood second in its platform's list, after a revoked key
C5_Witness ==
    /\ PairJustEnded
    /\ EndedRot.outcome = "ok"
    /\ EndedRot.KeyIdx = 2
    /\ cfg[1].Personas[EndedRot.PersonaIdx].Platforms[EndedRot.PlatformIdx].Keys[1].Status
         = KeyStatusRevoked

----------------------------------------------------------------------------
(* revoke claims *)

RevokeRan == cmd # <<>> /\ cmd.name = "revoke"

\* C2: after a revoke run selected by persona, platform type or "all", each
\* target whose remote deletion succeeded, or which had no remote id, has
\* status revoked in the saved model, and each target whose deletion failed
\* has there the status it had.
C2_SucceededTargetsSavedRevoked ==
    (RevokeRan /\ LastStep = "revokeSave") =>
        \A n \in 1..Len(keysToRevoke) :
            LET kr == keysToRevoke[n]
                saved == KeyAt(disk, kr.slot[1], kr.slot[2], kr.slot[3])
                before == KeyAt(cmdPre[1], kr.slot[1], kr.slot[2], kr.slot[3])
            IN /\ kr.outcome = "ok" => saved.Status = KeyStatusRevoked
               /\ kr.outcome = "failed" => saved.Status = before.Status

\* the slots of the keys that were revoked when the command started
RevokedBefore ==
    { sl \in KeySlots(cmdPre[1]) :
        KeyAt(cmdPre[1], sl[1], sl[2], sl[3]).Status = KeyStatusRevoked }

\* C6: whatever the selector of a revoke run, for a key whose status was
\* revoked when the run started no remote delete is issued and the status
\* is not written again.
C6_RevokedNeverTargeted ==
    RevokeRan =>
        \A sl \in RevokedBefore :
            /\ KeyAt(cmdPre[1], sl[1], sl[2], sl[3]).RemoteID \notin deletes
            /\ sl \notin statusWrites

\* no key of the model the command loaded has the fingerprint asked for
NoKeyHasFingerprint ==
    \A key \in AllKeys(cmdPre[1]) :
        NormalizeFingerprint(key.Fingerprint) # NormalizeFingerprint(cmd.fingerprint)

\* C7: revoke by a fingerprint that no key of the model has ends with "not
\* found"; no remote delete was issued, the model was not saved and the
\* config file is as the command found it.
C7_UnknownFingerprintNotFound ==
    (RevokeRan /\ LastStep = "revokeFp" /\ NoKeyHasFingerprint) =>
        /\ result = "notfound"
        /\ deletes = {}
        /\ statusWrites = {}
        /\ saves = 0
        /\ disk = cmdPre[1]

\* the fingerprint of no key was asked for and confirmed, in a model with
\* keys, a token at hand for each
C7_Witness ==
    /\ RevokeRan
    /\ LastStep = "revokeFp"
    /\ cmd.fingerprint = Fp("zz")
    /\ cmd.confirm
    /\ AllKeys(cmdPre[1]) # {}
    /\ \A sl \in KeySlots(cmdPre[1]) :
         LET p == cmdPre[1].Personas[sl[1]].Platforms[sl[2]]
         IN HasToken(p.Type, p.Account)
    /\ result = "notfound"

----------------------------------------------------------------------------
(* apply claims *)

\* the platforms of the saved model whose managed block is in the routing file
RoutedPlatforms ==
    { sl \in PlatformSlots(disk) :
        LET persona == disk.Personas[sl[1]]
            platform == persona.Platforms[sl[2]]
        IN HasBlock(routing, GetManagedBlockID(persona.Name, platform.Type,
                                               platform.Account)) }

HostAliases(sl) ==
    LET persona == disk.Personas[sl[1]]
        platform == persona.Platforms[sl[2]]
    IN BlockValues(routing,
                   GetManagedBlockID(persona.Name, platform.Type, platform.Account),
                   "Host ")

Combination(sl) ==
    LET persona == disk.Personas[sl[1]]
        platform == persona.Platforms[sl[2]]
    IN <<persona.Name, platform.Type, platform.Account>>

\* C10: when apply has completed, the managed blocks of two different
\* (persona, platform type, account) combinations declare different Host
\* aliases.
C10_HostAliasUnique ==
    (cmd # <<>> /\ cmd.name = "apply" /\ LastStep = "applyDone") =>
        \A s1 \in RoutedPlatforms, s2 \in RoutedPlatforms :
            Combination(s1) # Combination(s2) =>
                HostAliases(s1) \cap HostAliases(s2) = {}

----------------------------------------------------------------------------
(* SpecGitConfig: the managed section of ~/.gitconfig (addGitConfigIncludes
   of apply, addIncludeIfEntries of setup-git).  The content is a sequence
   of tokens: "\n", the two markers, and other text. *)

managedMarker == "# BEGIN git-keys managed conditional includes"
endMarker == "# END git-keys managed conditional includes"
NL == "\n"

\* strings.Index for a token: its first position, 0 when absent.  Go's
\* positions are one less, -1 when absent, so endIdx > startIdx reads the same.
Index(s, tok) ==
    LET hits == {i \in 1..Len(s) : s[i] = tok}
    IN IF hits = {} THEN 0 ELSE CHOOSE i \in hits : \A j \in hits : i <= j

\* strings.TrimRight(s, "\n") and strings.TrimLeft(s, "\n")
RECURSIVE TrimRightNL(_)
TrimRightNL(s) ==
    IF s # <<>> /\ s[Len(s)] = NL THEN TrimRightNL(SubSeq(s, 1, Len(s) - 1)) ELSE s

RECURSIVE TrimLeftNL(_)
TrimLeftNL(s) == IF s # <<>> /\ Head(s) = NL THEN TrimLeftNL(Tail(s)) ELSE s

\* strings.Join(entries, "\n")
RECURSIVE Join(_, _)
Join(entries, sep) ==
    IF entries = <<>> THEN <<>>
    ELSE IF Len(entries) = 1 THEN entries[1]
    ELSE entries[1] \o <<sep>> \o Join(Tail(entries), sep)

\* addGitConfigIncludes: the new content of the file.  newContent stays ""
\* when the BEGIN marker is there and no END marker follows it.
addGitConfigIncludes(existingContent, entries) ==
    LET startIdx == Index(existingContent, managedMarker)
        endIdx == Index(existingContent, endMarker)
        section == <<managedMarker, NL>> \o Join(entries, NL) \o <<endMarker, NL>>
    IN IF startIdx # 0
       THEN IF endIdx > startIdx
            THEN TrimRightNL(SubSeq(existingContent, 1, startIdx - 1)) \o <<NL, NL>>
                 \o section
                 \o TrimLeftNL(SubSeq(existingContent, endIdx + 1, Len(existingContent)))
            ELSE <<>>
       ELSE TrimRightNL(existingContent) \o <<NL, NL>> \o section

\* setup_git.go has the same function under another name
addIncludeIfEntries(existingContent, entries) ==
    LET startIdx == Index(existingContent, managedMarker)
        endIdx == Index(existingContent, endMarker)
        section == <<managedMarker, NL>> \o Join(entries, NL) \o <<endMarker, NL>>
    IN IF startIdx # 0
       THEN IF endIdx > startIdx
            THEN TrimRightNL(SubSeq(existingContent, 1, startIdx - 1)) \o <<NL, NL>>
                 \o section
                 \o TrimLeftNL(SubSeq(existingContent, endIdx + 1, Len(existingContent)))
            ELSE <<>>
       ELSE TrimRightNL(existingContent) \o <<NL, NL>> \o section

\* what a ~/.gitconfig is made of
GitTokens == {NL, managedMarker, endMarker, "[user]", "[alias]"}

\* includeIf entries as setupGitConfigForPersonas formats them (line 411)
IncludeEntry(t) == <<"[includeIf ", t, "]", NL, "\tpath = ", t, NL>>

IncludeEntryLists ==
    { <<IncludeEntry("p1")>>, <<IncludeEntry("p1"), IncludeEntry("p2")>> }

InitGitConfig ==
    /\ gitconfig \in SeqsUpTo(GitTokens, MaxGitLen)
    /\ gPrev = <<>>
    /\ gCalls = 0
    /\ RoutingParked
    /\ RecParked
    /\ RemParked
    /\ LifeParked
    /\ ScanParked
    /\ WalkParked
    /\ MgrParked
    /\ BkParked

\* apply: setupGitConfigForPersonas, line 428
UpdateFromApply ==
    /\ gCalls < MaxGitUpdates
    /\ \E entries \in IncludeEntryLists :
        gitconfig' = addGitConfigIncludes(gitconfig, entries)
    /\ gPrev' = gitconfig
    /\ gCalls' = gCalls + 1
    /\ UNCHANGED <<routingVars, recVars, lifeVars, scanVars, walkVars, mgrVars, bkVars, remVars>>

\* setup-git
UpdateFromSetupGit ==
    /\ gCalls < MaxGitUpdates
    /\ \E entries \in IncludeEntryLists :
        gitconfig' = addIncludeIfEntries(gitconfig, entries)
    /\ gPrev' = gitconfig
    /\ gCalls' = gCalls + 1
    /\ UNCHANGED <<routingVars, recVars, lifeVars, scanVars, walkVars, mgrVars, bkVars, remVars>>

NextGitConfig == UpdateFromApply \/ UpdateFromSetupGit

SpecGitConfig == InitGitConfig /\ [][NextGitConfig]_vars

\* the text of a content that is not in its managed section: the section
\* runs from the first BEGIN marker to the first END marker when that one
\* comes later, and to the end of the file when none does.  Newlines are
\* left out: the update is free to trim them around the section.
OutsideManagedSection(content) ==
    LET startIdx == Index(content, managedMarker)
        endIdx == Index(content, endMarker)
        kept == IF startIdx = 0 THEN content
                ELSE SubSeq(content, 1, startIdx - 1)
                     \o (IF endIdx > startIdx
                         THEN SubSeq(content, endIdx + 1, Len(content)) ELSE <<>>)
    IN SelectSeq(kept, LAMBDA t : t # NL)

\* C11: an update of the managed section of ~/.gitconfig keeps, in order,
\* all text of the prior content that is outside the managed section, also
\* for a prior content with a BEGIN marker and no END marker after it.
C11_GitConfigOutsideKept ==
    gCalls > 0 => IsSubseq(OutsideManagedSection(gPrev), gitconfig)

----------------------------------------------------------------------------
(* SpecScan: scanSSHKeys and checkSSHAgent over small key directories *)

\* an entry of the directory; inspect is what ssh-keygen -lf and the read
\* of the file give: <<>> (an error) or <<the fingerprint>>
DirEntry(name, isDir, mtime, inspect) ==
    [name |-> name, isDir |-> isDir, mtime |-> mtime, inspect |-> inspect]

PubName(name) == name \o Str(".pub")

\* the names a scanned directory may hold, in the order os.ReadDir lists them
DirNames ==
    << <<".", "x">>, PubName(<<".", "x">>), Str("config"), PubName(Str("config")),
       Str("id_a"), PubName(Str("id_a")), Str("id_b"), PubName(Str("id_b")),
       Str("id_c"), PubName(Str("id_c")) >>

\* the fingerprint of the key in <name>.pub; id_c is a copy of id_a
FingerprintOf(name) ==
    IF name \in {Str("id_a"), Str("id_c")} THEN "SHA256:A"
    ELSE IF name = Str("id_b") THEN "SHA256:B"
    ELSE "SHA256:C"

\* what may be in a directory under one name and its .pub sibling
PairStates(name) ==
    {{}}
    \cup {{DirEntry(PubName(name), FALSE, 1, <<FingerprintOf(name)>>)}}
    \cup {{DirEntry(name, TRUE, 1, <<>>),
           DirEntry(PubName(name), FALSE, 1, <<FingerprintOf(name)>>)}}
    \cup UNION { { {DirEntry(name, FALSE, m, <<>>)},
                   {DirEntry(name, FALSE, m, <<>>),
                    DirEntry(PubName(name), FALSE, m, <<FingerprintOf(name)>>)},
                   {DirEntry(name, FALSE, m, <<>>),
                    DirEntry(PubName(name), FALSE, m, <<>>)} } : m \in 1..MaxMtime }

\* absent, or a valid pair
KeyStates(name) ==
    {{}} \cup { {DirEntry(name, FALSE, m, <<>>),
                 DirEntry(PubName(name), FALSE, m, <<FingerprintOf(name)>>)}
               : m \in 1..MaxMtime }

\* an excluded name: absent, or a pair that would pass inspection
ExcludedStates(name) ==
    { {}, {DirEntry(name, FALSE, 1, <<>>),
           DirEntry(PubName(name), FALSE, 1, <<FingerprintOf(name)>>)} }

KeyDirs ==
    { a \cup b \cup c \cup d \cup e :
        a \in PairStates(Str("id_a")), b \in KeyStates(Str("id_b")),
        c \in KeyStates(Str("id_c")), d \in ExcludedStates(Str("config")),
        e \in ExcludedStates(<<".", "x">>) }

DiscoveredKey(path, fingerprint, created, inAgent) ==
    [Path |-> path, Fingerprint |-> fingerprint, Created |-> created,
     InAgent |-> inAgent]

\* scanSSHKeys, lines 165-177: the names the loop skips
SkippedName(name) ==
    \/ HasSuffix(name, Str(".pub"))
    \/ name \in {Str("known_hosts"), Str("known_hosts.old"), Str("config"),
                 Str("authorized_keys")}
    \/ HasPrefix(name, Str("."))

EntryNamed(dir, name) == {e \in dir : e.name = name}

\* scanSSHKeys, lines 160-233: the loop over the entries, from the i-th name on
RECURSIVE CollectKeys(_, _)
CollectKeys(dir, i) ==
    IF i > Len(DirNames) THEN <<>>
    ELSE LET name == DirNames[i]
             here == EntryNamed(dir, name)
             pub == EntryNamed(dir, PubName(name))
             rest == CollectKeys(dir, i + 1)
         IN IF here = {} THEN rest
            ELSE LET entry == CHOOSE e \in here : TRUE
                 IN IF entry.isDir \/ SkippedName(name) THEN rest
                    ELSE IF pub = {} THEN rest
                    ELSE LET p == CHOOSE e \in pub : TRUE
                         IN IF p.inspect = <<>> THEN rest
                            ELSE <<DiscoveredKey(name, p.inspect[1], entry.mtime, FALSE)>>
                                 \o rest

\* what sort.Slice may leave for the less function of line 237: its sort is
\* not stable, so keys of one time come in any order
SortedNewestFirst(keys) ==
    { [i \in 1..Len(keys) |-> keys[perm[i]]] : perm \in
        { q \in Permutations(1..Len(keys)) :
            \A i, j \in 1..Len(keys) :
                i < j => ~(keys[q[j]].Created > keys[q[i]].Created) } }

scanSSHKeys_Unsorted(dir) == {CollectKeys(dir, 1)}

\* scanSSHKeys when os.ReadDir succeeds: the results it may return
scanSSHKeys(dir) == SortedNewestFirst(CollectKeys(dir, 1))

\* a line of ssh-add -l, and strings.Fields of it
AgentLine(fp) == <<"256", " ", fp, " ", "c", " ", "(ED25519)">>

AgentLines == {AgentLine("SHA256:A"), AgentLine("SHA256:B"), AgentLine("SHA256:Z"),
               Str("SHA256:B"), EmptyStr}

Fields(line) == SelectSeq(line, LAMBDA t : t # " ")

\* checkSSHAgent, lines 352-364
agentFingerprints(lines) ==
    { Fields(lines[i])[2] : i \in {k \in 1..Len(lines) :
                                     lines[k] # EmptyStr /\ Len(Fields(lines[k])) >= 2} }

checkSSHAgent_FirstField(keys, out) ==
    IF ~out.ok THEN keys
    ELSE [i \in 1..Len(keys) |->
            IF keys[i].Fingerprint \in
                 { Fields(out.lines[k])[1] : k \in {n \in 1..Len(out.lines) :
                                                      out.lines[n] # EmptyStr} }
            THEN [keys[i] EXCEPT !.InAgent = TRUE] ELSE keys[i]]

\* checkSSHAgent: result.Keys after it
checkSSHAgent(keys, out) ==
    IF ~out.ok THEN keys
    ELSE [i \in 1..Len(keys) |->
            IF keys[i].Fingerprint \in agentFingerprints(out.lines)
            THEN [keys[i] EXCEPT !.InAgent = TRUE] ELSE keys[i]]

InitScan ==
    /\ \/ sshDir \in KeyDirs /\ sshDirOk = TRUE
       \/ sshDir = {} /\ sshDirOk = FALSE
    /\ agentOut = <<>>
    /\ scanKeys = <<>>
    /\ scanErr = FALSE
    /\ scanPc = "start"
    /\ RoutingParked
    /\ RecParked
    /\ RemParked
    /\ LifeParked
    /\ GitParked
    /\ WalkParked
    /\ MgrParked
    /\ BkParked

\* runScan, lines 105-111
ScanKeys ==
    /\ scanPc = "start"
    /\ IF sshDirOk
       THEN scanKeys' \in scanSSHKeys(sshDir) /\ scanErr' = FALSE
       ELSE scanKeys' = <<>> /\ scanErr' = TRUE
    /\ scanPc' = "scanned"
    /\ UNCHANGED <<sshDir, sshDirOk, agentOut>>
    /\ UNCHANGED <<routingVars, recVars, lifeVars, gitVars, walkVars, mgrVars, bkVars, remVars>>

\* runScan, line 125
CheckAgent ==
    /\ scanPc = "scanned"
    /\ \E out \in {[ok |-> FALSE, lines |-> <<>>]}
                  \cup {[ok |-> TRUE, lines |-> l] : l \in SeqsUpTo(AgentLines, MaxAgentLines)} :
        /\ agentOut' = <<out>>
        /\ scanKeys' = checkSSHAgent(scanKeys, out)
    /\ scanPc' = "done"
    /\ UNCHANGED <<sshDir, sshDirOk, scanErr>>
    /\ UNCHANGED <<routingVars, recVars, lifeVars, gitVars, walkVars, mgrVars, bkVars, remVars>>

NextScan == ScanKeys \/ CheckAgent

SpecScan == InitScan /\ [][NextScan]_vars

\* the names of the valid pairs of a directory: a file, not a directory and
\* not of an excluded name, with a sibling .pub that inspection accepts
ValidPairs(dir) ==
    { e.name : e \in { x \in dir :
        /\ ~x.isDir
        /\ ~SkippedName(x.name)
        /\ \E p \in dir : p.name = PubName(x.name) /\ p.inspect # <<>> } }

\* C12: the scan of a readable directory returns no error and exactly its
\* valid pairs, each once, with the file's modification time, ordered by
\* that time, newest first.
C12_ScanReturnsValidPairsNewestFirst ==
    (scanPc # "start" /\ sshDirOk) =>
        /\ ~scanErr
        /\ Len(scanKeys) = Cardinality(ValidPairs(sshDir))
        /\ {scanKeys[i].Path : i \in 1..Len(scanKeys)} = ValidPairs(sshDir)
        /\ \A i \in 1..Len(scanKeys) :
             \E e \in sshDir : e.name = scanKeys[i].Path /\ e.mtime = scanKeys[i].Created
        /\ \A i, j \in 1..Len(scanKeys) :
             i < j => scanKeys[i].Created >= scanKeys[j].Created

\* three valid pairs, the one listed first being the oldest, beside an
\* excluded pair
C12_Witness ==
    /\ scanPc = "scanned"
    /\ Len(scanKeys) = 3
    /\ scanKeys[3].Path = Str("id_a")
    /\ scanKeys[1].Created > scanKeys[3].Created
    /\ \E e \in sshDir : e.name = Str("config")

\* C13: after the scan a key's InAgent flag is set exactly when its
\* fingerprint is the fingerprint of a line of the agent's listing; when the
\* agent could not be queried no flag is set, and the keys found stay found.
C13_InAgentIffListed ==
    scanPc = "done" =>
        /\ \A i \in 1..Len(scanKeys) :
             scanKeys[i].InAgent <=>
                /\ agentOut[1].ok
                /\ \E k \in 1..Len(agentOut[1].lines) :
                     /\ Len(Fields(agentOut[1].lines[k])) >= 2
                     /\ Fields(agentOut[1].lines[k])[2] = scanKeys[i].Fingerprint
        /\ sshDirOk => {scanKeys[i].Path : i \in 1..Len(scanKeys)} = ValidPairs(sshDir)

\* two keys of one fingerprint are both flagged, a third key is not, and the
\* listing names a key that the directory does not hold
C13_Witness ==
    /\ scanPc = "done"
    /\ Len(scanKeys) = 3
    /\ \E i, j, k \in 1..3 :
        /\ i # j
        /\ scanKeys[i].InAgent /\ scanKeys[j].InAgent /\ ~scanKeys[k].InAgent
    /\ \E n \in 1..Len(agentOut[1].lines) : agentOut[1].lines[n] = AgentLine("SHA256:Z")

----------------------------------------------------------------------------
(* SpecDiscover: discoverPlatformsInDirectory over small directory trees *)

\* strings.Contains for a literal of several tokens
ContainsSeq(s, sub) ==
    \E i \in 1..(Len(s) - Len(sub) + 1) : SubSeq(s, i, i + Len(sub) - 1) = sub

\* strings.Split(s, sep) for a one-token separator
RECURSIVE Split(_, _)
Split(s, sep) ==
    LET i == Index(s, sep)
    IN IF i = 0 THEN <<s>>
       ELSE <<SubSeq(s, 1, i - 1)>> \o Split(SubSeq(s, i + 1, Len(s)), sep)

\* parseGitRemoteURL, lines 551-581: <<hostname, group>>
RemoteHostAndGroup(url) ==
    IF HasPrefix(url, Str("git@")) \/ HasPrefix(url, Str("ssh://"))
    THEN LET u == TrimPrefix(TrimPrefix(url, Str("ssh://")), Str("git@"))
             parts == Split(u, ":")
         IN IF Contains(u, ":")
            THEN <<parts[1], Split(parts[2], "/")[1]>>
            ELSE <<EmptyStr, EmptyStr>>
    ELSE IF HasPrefix(url, Str("http://")) \/ HasPrefix(url, Str("https://"))
    THEN LET u == TrimPrefix(TrimPrefix(url, Str("https://")), Str("http://"))
             parts == Split(u, "/")
         IN IF Len(parts) >= 2 THEN <<parts[1], parts[2]>>
            ELSE <<EmptyStr, EmptyStr>>
    ELSE <<EmptyStr, EmptyStr>>

\* parseGitRemoteURL: <<platformType, baseURL, group>>, platformType "" for
\* a URL that is skipped
parseGitRemoteURL(url) ==
    LET hostname == RemoteHostAndGroup(url)[1]
        group == RemoteHostAndGroup(url)[2]
    IN IF hostname = EmptyStr THEN <<"", EmptyStr, EmptyStr>>
       ELSE IF ContainsSeq(hostname, GithubCom) THEN <<PlatformGitHub, EmptyStr, group>>
       ELSE IF Contains(hostname, "gitlab")
            THEN <<PlatformGitLab,
                   IF hostname # GitlabCom THEN Str("https://") \o hostname ELSE EmptyStr,
                   group>>
       ELSE <<"", EmptyStr, EmptyStr>>

WalkedPlatform(type, baseURL, repoCount, groups) ==
    [Type |-> type, BaseURL |-> baseURL, RepoCount |-> repoCount, Groups |-> groups]

\* lines 494-514: one remote URL met; m is platformMap, a function from the
\* <<type, baseURL>> keys it holds
AddRemote(m, url) ==
    LET parsed == parseGitRemoteURL(url)
        key == <<parsed[1], parsed[2]>>
    IN IF parsed[1] = "" THEN m
       ELSE IF key \in DOMAIN m
       THEN [m EXCEPT ![key] =
               [@ EXCEPT !.RepoCount = @ + 1,
                         !.Groups = IF parsed[3] # EmptyStr
                                       /\ parsed[3] \notin SeqRange(m[key].Groups)
                                    THEN Append(@, parsed[3]) ELSE @]]
       ELSE (key :> WalkedPlatform(parsed[1], parsed[2], 1,
                       IF parsed[3] # EmptyStr THEN <<parsed[3]>> ELSE <<>>)) @@ m

RECURSIVE AddRemotes(_, _)
AddRemotes(m, urls) ==
    IF urls = <<>> THEN m ELSE AddRemotes(AddRemote(m, Head(urls)), Tail(urls))

\* a repository: how deep it lies under the directory, and the URLs of the
\* remotes of its .git/config
Repo(depth, remotes) == [depth |-> depth, remotes |-> remotes]

\* lines 456-517: the walk over the repositories, one call-back each
RECURSIVE WalkRepos(_, _)
WalkRepos(m, repos) ==
    IF repos = <<>> THEN m
    ELSE WalkRepos(IF Head(repos).depth > 2 THEN m
                   ELSE AddRemotes(m, Head(repos).remotes),
                   Tail(repos))

\* lines 523-529: the map as a slice, in the order the map range gives
MapAsSlices(m) ==
    LET keys == DOMAIN m
        n == Cardinality(keys)
    IN { [i \in 1..n |-> m[order[i]]] :
           order \in { o \in [1..n -> keys] : \A i, j \in 1..n : i # j => o[i] # o[j] } }

\* discoverPlatformsInDirectory for a directory that exists: the slices it
\* may return
discoverPlatformsInDirectory(repos) == MapAsSlices(WalkRepos(<<>>, repos))

UrlGithubSSH == <<"git@", "github", ".com", ":", "me", "/", "r.git">>
UrlGithubHTTPS == <<"https://", "github", ".com", "/", "org", "/", "r">>
UrlCorpSSH == <<"git@", "gitlab", ".corp", ":", "team", "/", "r.git">>
UrlCorpHTTPS == <<"https://", "gitlab", ".corp", "/", "team", "/", "r">>
UrlOther == <<"https://", "bitbucket", ".org", "/", "x", "/", "r">>

RepoKinds ==
    { Repo(1, <<UrlGithubSSH>>),
      Repo(2, <<UrlGithubSSH, UrlGithubHTTPS>>),
      Repo(2, <<UrlCorpSSH>>),
      Repo(1, <<UrlCorpHTTPS, UrlOther>>),
      Repo(3, <<UrlGithubSSH>>),
      Repo(1, <<>>) }

InitDiscover ==
    /\ walkRepos \in SeqsUpTo(RepoKinds, MaxRepos)
    /\ walkOut = <<>>
    /\ RoutingParked
    /\ RecParked
    /\ RemParked
    /\ LifeParked
    /\ GitParked
    /\ ScanParked
    /\ MgrParked
    /\ BkParked

Discover ==
    /\ walkOut = <<>>
    /\ \E platforms \in discoverPlatformsInDirectory(walkRepos) :
        walkOut' = <<platforms>>
    /\ UNCHANGED walkRepos
    /\ UNCHANGED <<routingVars, recVars, lifeVars, gitVars, scanVars, mgrVars, bkVars, remVars>>

NextDiscover == Discover

SpecDiscover == InitDiscover /\ [][NextDiscover]_vars

\* the walked repositories in which a <<type, baseURL>> pair is found
ReposWith(type, baseURL) ==
    { i \in 1..Len(walkRepos) :
        /\ walkRepos[i].depth <= 2
        /\ \E k \in 1..Len(walkRepos[i].remotes) :
             LET parsed == parseGitRemoteURL(walkRepos[i].remotes[k])
             IN parsed[1] = type /\ parsed[2] = baseURL }

\* C14: the walk returns no two platforms of one (type, base URL), and a
\* platform found in two repositories has RepoCount 2.
C14_OnePlatformPerPairCountingRepos ==
    walkOut # <<>> =>
        LET out == walkOut[1]
        IN /\ \A i, j \in 1..Len(out) :
                (out[i].Type = out[j].Type /\ out[i].BaseURL = out[j].BaseURL) => i = j
           /\ \A i \in 1..Len(out) :
                Cardinality(ReposWith(out[i].Type, out[i].BaseURL)) = 2
                    => out[i].RepoCount = 2

----------------------------------------------------------------------------
(* SpecManager: Manager.Load and Manager.Save on one config file *)

\* no file at the path, and a file whose text is not a YAML document
Absent == <<"absent">>

Garbage == <<"garbage">>

\* yaml.Marshal of a Config, and yaml.Unmarshal of such a document
Marshal(c) == <<"yaml", c>>

Unmarshal(data) == data[2]

PersonaKinds ==
    { Persona(name, email, platforms) :
        name \in {EmptyStr, Str("a")},
        email \in {EmptyStr, Str("a@x")},
        platforms \in {<<>>, <<Platform(PlatformGitHub, Str("me"), EmptyStr, <<>>)>>} }

ModelsUpTo(n) ==
    { Config(version, machineID, personas, KeyTypeED25519) :
        version \in {EmptyStr, Str("1.0")},
        machineID \in {EmptyStr, Str("m1")},
        personas \in SeqsUpTo(PersonaKinds, n) }

\* what the file may hold when a command starts: nothing, text that is not
\* YAML, or the document of a model, which the user may have edited
FilesAtStart == {Absent, Garbage} \cup { Marshal(c) : c \in ModelsUpTo(1) }

ManagerCall(op, arg, err, out) == [op |-> op, arg |-> arg, err |-> err, out |-> out]

InitManager ==
    /\ mgrFile \in FilesAtStart
    /\ mgrPrev = mgrFile
    /\ mgrCall = <<>>
    /\ RoutingParked
    /\ RecParked
    /\ RemParked
    /\ LifeParked
    /\ GitParked
    /\ ScanParked
    /\ WalkParked
    /\ BkParked

\* Manager.Load
Load ==
    /\ mgrCall = <<>>
    /\ mgrCall' =
        IF mgrFile = Absent
        THEN <<ManagerCall("Load", <<>>, "failed to read config file", <<>>)>>
        ELSE IF mgrFile = Garbage
        THEN <<ManagerCall("Load", <<>>, "failed to parse config file", <<>>)>>
        ELSE IF ~Validate(Unmarshal(mgrFile))
        THEN <<ManagerCall("Load", <<>>, "invalid config", <<>>)>>
        ELSE <<ManagerCall("Load", <<>>, "", <<Unmarshal(mgrFile)>>)>>
    /\ mgrPrev' = mgrFile
    /\ UNCHANGED mgrFile
    /\ UNCHANGED <<routingVars, recVars, lifeVars, gitVars, scanVars, walkVars, bkVars, remVars>>

\* Manager.Save of the model c; MkdirAll or WriteFile may fail, and a
\* WriteFile that fails may already have truncated the file
ManagerSave ==
    /\ mgrCall = <<>>
    /\ \E c \in ModelsUpTo(MaxPersonas) :
        IF ~Validate(c)
        THEN /\ mgrCall' = <<ManagerCall("Save", <<c>>, "invalid config", <<>>)>>
             /\ UNCHANGED mgrFile
        ELSE \/ /\ mgrCall' = <<ManagerCall("Save", <<c>>, "", <<>>)>>
                /\ mgrFile' = Marshal(c)
             \/ /\ mgrCall' = <<ManagerCall("Save", <<c>>, "failed to create config directory", <<>>)>>
                /\ UNCHANGED mgrFile
             \/ /\ mgrCall' = <<ManagerCall("Save", <<c>>, "failed to write config file", <<>>)>>
                /\ mgrFile' \in {mgrFile, Garbage}
    /\ mgrPrev' = mgrFile
    /\ UNCHANGED <<routingVars, recVars, lifeVars, gitVars, scanVars, walkVars, bkVars, remVars>>

NextManager == Load \/ ManagerSave

SpecManager == InitManager /\ [][NextManager]_vars

\* the model a call validated: the one parsed from the file, or the one
\* handed to Save; <<>> when the call never reached the validation
ValidatedModel ==
    IF mgrCall = <<>> THEN <<>>
    ELSE IF mgrCall[1].op = "Save" THEN mgrCall[1].arg
    ELSE IF mgrPrev \in {Absent, Garbage} THEN <<>>
    ELSE <<Unmarshal(mgrPrev)>>

\* C15 as stated: Load and Save reject with "invalid config" exactly the
\* models lacking a version, a machine id, or a name, an email or a platform
\* of some persona; a rejected Save leaves the file as it was.
C15_ValidatesStatedFields ==
    ValidatedModel # <<>> =>
        LET c == ValidatedModel[1]
            stated == /\ c.Version # EmptyStr
                      /\ c.MachineID # EmptyStr
                      /\ \A i \in 1..Len(c.Personas) :
                            /\ c.Personas[i].Name # EmptyStr
                            /\ c.Personas[i].Email # EmptyStr
                            /\ Len(c.Personas[i].Platforms) >= 1
        IN /\ (mgrCall[1].err = "invalid config") <=> ~stated
           /\ (mgrCall[1].op = "Save" /\ ~stated) => mgrFile = mgrPrev

\* C15, amended: Load and Save reject with "invalid config" exactly the
\* models lacking a version, a machine id, any persona at all, or a name, an
\* email or a platform of some persona; a rejected Save returns that error
\* and leaves the file as it was.
C15_ValidatesFieldsAndAPersona ==
    ValidatedModel # <<>> =>
        LET c == ValidatedModel[1]
            accepted == /\ c.Version # EmptyStr
                        /\ c.MachineID # EmptyStr
                        /\ Len(c.Personas) >= 1
                        /\ \A i \in 1..Len(c.Personas) :
                              /\ c.Personas[i].Name # EmptyStr
                              /\ c.Personas[i].Email # EmptyStr
                              /\ Len(c.Personas[i].Platforms) >= 1
        IN /\ (mgrCall[1].err = "invalid config") <=> ~accepted
           /\ (mgrCall[1].op = "Save" /\ ~accepted) => mgrFile = mgrPrev

\* a Save of a model without personas, over a file holding a valid document,
\* was rejected
C15_Witness ==
    /\ mgrCall # <<>>
    /\ mgrCall[1].op = "Save"
    /\ mgrCall[1].arg[1].Version # EmptyStr
    /\ mgrCall[1].arg[1].MachineID # EmptyStr
    /\ mgrCall[1].arg[1].Personas = <<>>
    /\ mgrCall[1].err = "invalid config"
    /\ mgrPrev \notin {Absent, Garbage}
    /\ Validate(Unmarshal(mgrPrev))

----------------------------------------------------------------------------
(* SpecBackup: createBackup under a running wall clock *)

\* timestamp.Format(backupTimestampFormat): "2006-01-02-150405" keeps the
\* date and the time down to the second
FormatBackupTimestamp(t) == t \div TicksPerSecond

\* the name of the snapshot file, and of the copies of the two config files
BackupFilename(t) == <<"backup-", FormatBackupTimestamp(t), ".json">>

PreRebuildName(source, t) == <<source, ".pre-rebuild-", FormatBackupTimestamp(t)>>

\* os.WriteFile: creates the file or truncates and rewrites it
WriteFile(fs, name, content) ==
    [n \in DOMAIN fs \cup {name} |-> IF n = name THEN content ELSE fs[n]]

\* what a snapshot is made of: the scan result and the old config of the call
BackupContents == {"scan1", "scan2"}

InitBackup ==
    /\ bkClock = 0
    /\ bkSources \in SUBSET {"sshconfig", "gitkeys.yaml"}
    /\ bkFiles = <<>>
    /\ bkPrev = <<>>
    /\ bkMade = 0
    /\ RoutingParked
    /\ RecParked
    /\ RemParked
    /\ LifeParked
    /\ GitParked
    /\ ScanParked
    /\ WalkParked
    /\ MgrParked

\* time passes
Tick ==
    /\ bkClock < MaxTicks
    /\ bkClock' = bkClock + 1
    /\ UNCHANGED <<bkSources, bkFiles, bkPrev, bkMade>>
    /\ UNCHANGED <<routingVars, recVars, lifeVars, gitVars, scanVars, walkVars, mgrVars, remVars>>

\* createBackup returning a path
CreateBackup ==
    /\ bkMade < MaxBackups
    /\ \E data \in BackupContents :
        LET timestamp == bkClock
            withSnapshot == WriteFile(bkFiles, BackupFilename(timestamp), data)
            withSSH == IF "sshconfig" \in bkSources
                       THEN WriteFile(withSnapshot, PreRebuildName("sshconfig", timestamp), data)
                       ELSE withSnapshot
            withConfig == IF "gitkeys.yaml" \in bkSources
                          THEN WriteFile(withSSH, PreRebuildName("gitkeys.yaml", timestamp), data)
                          ELSE withSSH
        IN bkFiles' = withConfig
    /\ bkPrev' = bkFiles
    /\ bkMade' = bkMade + 1
    /\ UNCHANGED <<bkClock, bkSources>>
    /\ UNCHANGED <<routingVars, recVars, lifeVars, gitVars, scanVars, walkVars, mgrVars, remVars>>

\* createBackup returning an error of MkdirAll
CreateBackupFails ==
    /\ bkMade < MaxBackups
    /\ bkPrev' = bkFiles
    /\ UNCHANGED <<bkClock, bkSources, bkFiles, bkMade>>
    /\ UNCHANGED <<routingVars, recVars, lifeVars, gitVars, scanVars, walkVars, mgrVars, remVars>>

NextBackup == Tick \/ CreateBackup \/ CreateBackupFails

SpecBackup == InitBackup /\ [][NextBackup]_vars

\* the snapshot files proper, without the copies of the config files
Snapshots(fs) == { n \in DOMAIN fs : n[1] = "backup-" }

\* C16: a backup creation leaves every earlier snapshot file as it was, and
\* as many snapshot files exist as backups were created.
C16_SnapshotsAppendOnly ==
    /\ \A n \in DOMAIN bkPrev : n \in DOMAIN bkFiles /\ bkFiles[n] = bkPrev[n]
    /\ Cardinality(Snapshots(bkFiles)) = bkMade

----------------------------------------------------------------------------
(* rotateKey: compensation, order of the steps, warnings; runRotate: the save *)

\* C17: when rotateKey has returned an error for a pair (a failure in step
\* 1, 2 or 3), neither the temporary private key file nor the temporary
\* public key file of that pair exists.
C17_EarlyFailureDeletesNewKeyFiles ==
    (PairJustEnded /\ EndedRot.outcome = "failed") =>
        /\ EndedRot.failedSteps \cap {1, 2, 3} # {}
        /\ KeyFiles(NewKeyPath(preRot[1].cfg, EndedRot)) \cap files = {}


\* the steps of rotateKey in the order of the code, as ev names them
RotationSteps ==
    <<"generate", "upload", "routing", "validate", "revokeOld", "archive", "commit">>

StepNumber(step) == CHOOSE n \in 1..Len(RotationSteps) : RotationSteps[n] = step

\* the new key of rot is registered remotely and rot's routing entry names it
NewKeyLive(rot, remoteKeys, routingFile) ==
    /\ rot.NewKey # <<>>
    /\ rot.NewKey[1].RemoteID \in remoteKeys
    /\ BlockValues(routingFile, RotationBlockID(rot), "IdentityFile ")
         = {rot.NewKey[1].LocalPath}

----------------------------------------------------------------------------
(* further claims about rotate, revoke and apply *)

----------------------------------------------------------------------------
(* claims about the recommendation in inference mode *)

\* C23: without a declared config, for every scanned routing entry whose
\* hostname is github.com or contains "gitlab", the recommendation holds a
\* platform of that type with the placeholder account and the entry's
\* identity file, in the persona of the global email or, without a global
\* email, in some persona, provided there is a persona at all.
C23_PlatformHostsAttached ==
    (recCfg = <<>> /\ recOut # <<>> /\ recOut[1] # <<>>) =>
        \A h \in 1..Len(recScan.SSHConfigHosts) :
            LET host == recScan.SSHConfigHosts[h]
                isGitlab == Contains(host.HostName, "gitlab")
            IN (host.HostName = GithubCom \/ isGitlab) =>
                 \E p \in 1..Len(recOut[1]) :
                     /\ recScan.GlobalEmail # EmptyStr =>
                          recOut[1][p].Email = recScan.GlobalEmail
                     /\ \E q \in 1..Len(recOut[1][p].Platforms) :
                          LET platform == recOut[1][p].Platforms[q]
                          IN /\ platform.Type = (IF isGitlab THEN PlatformGitLab
                                                 ELSE PlatformGitHub)
                             /\ platform.Account = Str("username")
                             /\ platform.KeyPath = host.IdentityFile


\* C24: without a declared config, no recommended persona holds two
\* platforms with the same type and the same base URL.
C24_PlatformsDeduplicated ==
    (recCfg = <<>> /\ recOut # <<>>) =>
        \A p \in 1..Len(recOut[1]) :
            \A q1, q2 \in 1..Len(recOut[1][p].Platforms) :
                LET a == recOut[1][p].Platforms[q1]
                    b == recOut[1][p].Platforms[q2]
                IN (a.Type = b.Type /\ a.BaseURL = b.BaseURL) => q1 = q2

----------------------------------------------------------------------------
(* scan --check-remote: matching the discovered keys against the platforms *)

\* the public keys of the model, as the text of a .pub file or of an API answer
PublicKeys == {Str("A"), Str("B")}

\* ssh-keygen -lf of a public key, second field (GetFingerprint, lines 72-81)
FingerprintOfKey(publicKey) == <<"SHA256:">> \o publicKey

\* a key of result.Keys as scanSSHKeys leaves it
ScannedKey(publicKey) ==
    [Fingerprint |-> FingerprintOfKey(publicKey), OnGitHub |-> FALSE,
     OnGitLab |-> FALSE]

\* one key of the answer of GET /user/keys
ApiKey(id, publicKey) == [id |-> id, title |-> Str("t"), key |-> publicKey,
                          created_at |-> Str("d")]

SSHKey(id, title, key, fingerprint, createdAt) ==
    [ID |-> id, Title |-> title, Key |-> key, Fingerprint |-> fingerprint,
     CreatedAt |-> createdAt]

\* GitHubClient.ListKeys and GitLabClient.ListKeys on a 200 answer: the
\* Fingerprint field of the SSHKey literal is not set
ListKeys(answer) ==
    [i \in 1..Len(answer) |->
        SSHKey(answer[i].id, answer[i].title, answer[i].key, EmptyStr,
               answer[i].created_at)]

\* matchRemoteKeys, lines 660-678
matchRemoteKeys(keys, remoteKeys, platform) ==
    [i \in 1..Len(keys) |->
        LET localFP == TrimPrefix(keys[i].Fingerprint, Str("SHA256:"))
            hit == \E r \in 1..Len(remoteKeys) :
                       localFP = TrimPrefix(remoteKeys[r].Fingerprint, Str("SHA256:"))
        IN IF ~hit THEN keys[i]
           ELSE IF platform = "GitHub" THEN [keys[i] EXCEPT !.OnGitHub = TRUE]
           ELSE IF platform = "GitLab" THEN [keys[i] EXCEPT !.OnGitLab = TRUE]
           ELSE keys[i]]

ApiAnswers ==
    { [i \in 1..Len(ks) |-> ApiKey(i, ks[i])] : ks \in SeqsUpTo(PublicKeys, MaxListedKeys) }

InitRemote ==
    /\ remKeys \in { [i \in 1..Len(ks) |-> ScannedKey(ks[i])] :
                       ks \in SeqsUpTo(PublicKeys, MaxScannedKeys) }
    /\ remServer \in [{"GitHub", "GitLab"} -> ApiAnswers]
    /\ remListed = {}
    /\ remPc = "github"
    /\ RoutingParked
    /\ RecParked
    /\ LifeParked
    /\ GitParked
    /\ ScanParked
    /\ WalkParked
    /\ MgrParked
    /\ BkParked

\* checkRemotePlatforms, lines 613-623: a token is stored and the listing comes
CheckGitHub ==
    /\ remPc = "github"
    /\ remKeys' = matchRemoteKeys(remKeys, ListKeys(remServer["GitHub"]), "GitHub")
    /\ remListed' = remListed \cup {"GitHub"}
    /\ remPc' = "gitlab"
    /\ UNCHANGED remServer
    /\ UNCHANGED <<routingVars, recVars, lifeVars, gitVars, scanVars, walkVars, mgrVars, bkVars>>

\* checkRemotePlatforms, lines 613-620: no token, or ListKeys returns an error
SkipGitHub ==
    /\ remPc = "github"
    /\ remPc' = "gitlab"
    /\ UNCHANGED <<remKeys, remServer, remListed>>
    /\ UNCHANGED <<routingVars, recVars, lifeVars, gitVars, scanVars, walkVars, mgrVars, bkVars>>

\* checkRemotePlatforms, lines 626-653
CheckGitLab ==
    /\ remPc = "gitlab"
    /\ remKeys' = matchRemoteKeys(remKeys, ListKeys(remServer["GitLab"]), "GitLab")
    /\ remListed' = remListed \cup {"GitLab"}
    /\ remPc' = "done"
    /\ UNCHANGED remServer
    /\ UNCHANGED <<routingVars, recVars, lifeVars, gitVars, scanVars, walkVars, mgrVars, bkVars>>

\* checkRemotePlatforms, lines 626-650: no token, or ListKeys returns an error
SkipGitLab ==
    /\ remPc = "gitlab"
    /\ remPc' = "done"
    /\ UNCHANGED <<remKeys, remServer, remListed>>
    /\ UNCHANGED <<routingVars, recVars, lifeVars, gitVars, scanVars, walkVars, mgrVars, bkVars>>

NextRemote == CheckGitHub \/ SkipGitHub \/ CheckGitLab \/ SkipGitLab

SpecRemote == InitRemote /\ [][NextRemote]_vars

FlagOf(key, platform) == IF platform = "GitHub" THEN key.OnGitHub ELSE key.OnGitLab

\* C25: once the platforms are checked, for every platform whose listing was
\* obtained, a discovered key is flagged for that platform exactly if the
\* listing holds a key with its fingerprint, "SHA256:" stripped on both sides.
C25_FlaggedIffListed ==
    remPc = "done" =>
        \A platform \in remListed : \A i \in 1..Len(remKeys) :
            FlagOf(remKeys[i], platform) <=>
                \E r \in 1..Len(remServer[platform]) :
                    TrimPrefix(FingerprintOfKey(remServer[platform][r].key), Str("SHA256:"))
                        = TrimPrefix(remKeys[i].Fingerprint, Str("SHA256:"))

----------------------------------------------------------------------------
(* SpecRuns: several commands of the key lifecycle, one after the other *)

InitRuns ==
    /\ \E c \in DeclaredConfigs : InitWorld(c)
    /\ faultsLeft = MaxRunFaults
    /\ cmdsLeft = MaxRuns

SpecRuns == InitRuns /\ [][Next]_vars

ActiveKeys(platform) ==
    {k \in 1..Len(platform.Keys) : platform.Keys[k].Status = KeyStatusActive}

AtMostOneActive(c) ==
    \A i \in 1..Len(c.Personas) : \A j \in 1..Len(c.Personas[i].Platforms) :
        Cardinality(ActiveKeys(c.Personas[i].Platforms[j])) <= 1

\* C26: from a declared model whose platforms have at most one active key
\* each, every sequence of apply, rotate and revoke runs, whatever steps fail,
\* leaves every platform with at most one active key, in the config file and
\* in the model the running command holds.
C26_AtMostOneActiveKey ==
    /\ AtMostOneActive(disk)
    /\ cfg # <<>> => AtMostOneActive(cfg[1])


\* two runs are over, both changed the config file, the second one rotated a
\* key, and a platform holds a revoked key beside its active one
C26_Witness ==
    /\ cmdsLeft = 0 /\ pc = "idle"
    /\ cmd # <<>> /\ cmd.name = "rotate" /\ result = "ok" /\ saves = 1
    /\ cmdPre # <<>> /\ disk # cmdPre[1] /\ cmdPre[1] \notin DeclaredConfigs
    /\ \E i \in 1..Len(disk.Personas) : \E j \in 1..Len(disk.Personas[i].Platforms) :
        LET platform == disk.Personas[i].Platforms[j]
        IN /\ Cardinality(ActiveKeys(platform)) = 1
           /\ Len(platform.Keys) >= 2

----------------------------------------------------------------------------
(* claims about the routing file over apply, rotate and revoke *)

\* the block ids apply and rotate use for the pair of a rotation
PairBlockIDs(rot) ==
    {GetManagedBlockID(rot.PersonaName, rot.PlatformType, rot.Account),
     RotationBlockID(rot)}

\* C27: after apply, when rotateKey has returned for a pair whose seven
\* steps all succeeded, the routing file holds exactly one managed block of
\* the pair, and no block of the pair is still as it was before the rotation.
C27_OneBlockPerPairAfterRotation ==
    (PairJustEnded /\ EndedRot.outcome = "ok" /\ EndedRot.failedSteps = {}) =>
        /\ Cardinality({ id \in PairBlockIDs(EndedRot) : HasBlock(routing, id) }) = 1
        /\ \A id \in PairBlockIDs(EndedRot) :
             HasBlock(routing, id) =>
                 BlockLines(routing, id) # BlockLines(preRot[1].routing, id)


\* C28: when rotateKey has returned an error for a pair, the pair's KeyConfig
\* in the model the command holds and in the config file, the old key's files
\* and the old key's remote registration are as they were when the rotation
\* started; when the run has ended the config file still holds the old
\* KeyConfig of every pair that failed.
C28_FailedRotationKeepsOldKey ==
    /\ (PairJustEnded /\ EndedRot.outcome = "failed") =>
        /\ RotSlotKey(cfg[1], EndedRot) = RotSlotKey(preRot[1].cfg, EndedRot)
        /\ RotSlotKey(cfg[1], EndedRot) = EndedRot.OldKey
        /\ RotSlotKey(disk, EndedRot) = RotSlotKey(cmdPre[1], EndedRot)
        /\ KeyFiles(EndedRot.OldKey.LocalPath) \cap files
             = KeyFiles(EndedRot.OldKey.LocalPath) \cap preRot[1].files
        /\ EndedRot.OldKey.RemoteID \in remote
             <=> EndedRot.OldKey.RemoteID \in preRot[1].remote
    /\ LastStep = "rotSave" =>
        \A n \in 1..Len(rotations) :
            rotations[n].outcome = "failed" =>
                RotSlotKey(disk, rotations[n]) = RotSlotKey(cmdPre[1], rotations[n])

\* a rotation failed at step 3, after the new key was generated and uploaded,
\* and the old key is still on disk and registered
C28_Witness ==
    /\ PairJustEnded
    /\ EndedRot.outcome = "failed"
    /\ EndedRot.failedSteps = {3}
    /\ KeyFiles(EndedRot.OldKey.LocalPath) \subseteq files
    /\ EndedRot.OldKey.RemoteID \in remote
    /\ RotSlotKey(cfg[1], EndedRot).Status = KeyStatusActive


\* C29: when a revoke run with --local has deleted local files, every target
\* whose revocation failed still has its private and public key files.
C29_LocalFilesKeptForFailedTargets ==
    LastStep \in {"revokeLocal", "revokeSave"} =>
        \A n \in 1..Len(keysToRevoke) :
            keysToRevoke[n].outcome = "failed" =>
                KeyFiles(keysToRevoke[n].Key.LocalPath) \subseteq files


\* C30: after a call of AddOrUpdateEntry, a second call with the same block
\* id and the same entries leaves the routing file as the first call left
\* it, and the file holds exactly one block with that id.
C30_UpsertIdempotent ==
    rCalls > 0 =>
        /\ AddOrUpdateEntry(routing, rBlock, rEntries) = routing
        /\ Cardinality({ i \in 1..Len(routing) :
                           TrimSpace(routing[i]) = StartMarker(rBlock) }) = 1

====
